---- MODULE Spec2Model ----
(***************************************************************************)
(* Capacity dashboard (src/src/App.jsx): the refresh cycle of the App      *)
(* component, its filter state, and the calculation engine of the          *)
(* `analysis` memo (normalisation, business days, prorating,               *)
(* classification, aggregation).                                           *)
(*                                                                         *)
(* Representation.  A JavaScript string the code inspects character by     *)
(* character (names, task labels, project names) is a sequence of          *)
(* one-character strings.  A Date is [day, tod]: the local calendar day as *)
(* a count of days since 1970-01-01 and the local time of day in hours;    *)
(* an Invalid Date is InvalidDate.  A JavaScript number that takes         *)
(* fractional values (hours, percentages, ratios) is an exact rational     *)
(* [n, d] with d > 0 in lowest terms; NaN is [n |-> 0, d |-> 0] and        *)
(* +/-Infinity is [n |-> +/-1, d |-> 0].  Hour cells are finite decimals.  *)
(***************************************************************************)
EXTENDS Integers, Sequences, FiniteSets, TLC

(***************************************************************************)
(* Rational arithmetic (JavaScript numbers, exact).                        *)
(***************************************************************************)
RECURSIVE GCD(_, _)
GCD(a, b) == IF b = 0 THEN a ELSE GCD(b, a % b)

Abs(x) == IF x < 0 THEN -x ELSE x

Norm(n, d) ==
  IF d = 0 THEN [n |-> IF n > 0 THEN 1 ELSE IF n < 0 THEN -1 ELSE 0, d |-> 0]
  ELSE LET g == GCD(Abs(n), Abs(d))
           s == IF d < 0 THEN -1 ELSE 1
       IN [n |-> s * (n \div g), d |-> s * (d \div g)]

R(i) == [n |-> i, d |-> 1]
Zero == R(0)
IsNaN(x) == x.d = 0 /\ x.n = 0
IsFinite(x) == x.d # 0
RAdd(x, y) ==
  IF x.d = 0 \/ y.d = 0
  THEN IF IsNaN(x) \/ IsNaN(y) \/ (x.d = 0 /\ y.d = 0 /\ x.n # y.n)
       THEN Norm(0, 0)
       ELSE IF x.d = 0 THEN x ELSE y
  ELSE Norm(x.n * y.d + y.n * x.d, x.d * y.d)
RMul(x, y) ==
  IF IsNaN(x) \/ IsNaN(y) THEN Norm(0, 0) ELSE Norm(x.n * y.n, x.d * y.d)
\* JavaScript `/`: x / 0 is +/-Infinity, 0 / 0 is NaN.
RDiv(x, y) ==
  IF IsNaN(x) \/ IsNaN(y) THEN Norm(0, 0) ELSE Norm(x.n * y.d, x.d * y.n)
\* JavaScript `>` and `>=`: false when either side is NaN.
RGt(x, y) ==
  /\ ~IsNaN(x) /\ ~IsNaN(y)
  /\ IF x.d = 0 \/ y.d = 0
     THEN (IF x.d = 0 THEN x.n ELSE 0) > (IF y.d = 0 THEN y.n ELSE 0)
     ELSE x.n * y.d > y.n * x.d
RGe(x, y) == ~IsNaN(x) /\ ~IsNaN(y) /\ (x = y \/ RGt(x, y))

(***************************************************************************)
(* Strings as sequences of characters.                                     *)
(***************************************************************************)
\* String.prototype.toUpperCase: the letters a to z are raised, any other
\* character is kept.
LowerToUpper ==
  [a |-> "A", b |-> "B", c |-> "C", d |-> "D", e |-> "E", f |-> "F", g |-> "G",
   h |-> "H", i |-> "I", j |-> "J", k |-> "K", l |-> "L", m |-> "M", n |-> "N",
   o |-> "O", p |-> "P", q |-> "Q", r |-> "R", s |-> "S", t |-> "T", u |-> "U",
   v |-> "V", w |-> "W", x |-> "X", y |-> "Y", z |-> "Z"]
UpChar(c) == IF c \in DOMAIN LowerToUpper THEN LowerToUpper[c] ELSE c
toUpperCase(s) == [i \in DOMAIN s |-> UpChar(s[i])]

\* String.prototype.includes
includes(s, sub) ==
  \E i \in 0..(Len(s) - Len(sub)) :
    \A j \in 1..Len(sub) : s[i + j] = sub[j]

\* String.prototype.trim
RECURSIVE trim(_)
trim(s) ==
  IF s = <<>> THEN s
  ELSE IF Head(s) = " " THEN trim(Tail(s))
  ELSE IF s[Len(s)] = " " THEN trim(SubSeq(s, 1, Len(s) - 1))
  ELSE s

\* String.prototype.split with a one-character separator
RECURSIVE split(_, _)
split(s, sep) ==
  IF \E i \in DOMAIN s : s[i] = sep
  THEN LET i == CHOOSE k \in DOMAIN s :
                  s[k] = sep /\ \A j \in 1..(k - 1) : s[j] # sep
       IN <<SubSeq(s, 1, i - 1)>> \o split(SubSeq(s, i + 1, Len(s)), sep)
  ELSE <<s>>

(***************************************************************************)
(* Dates.                                                                  *)
(***************************************************************************)
InvalidDate == [nan |-> TRUE]
Null == [null |-> TRUE]
IsDate(v) == DOMAIN v = {"day", "tod"} \/ v = InvalidDate   \* v instanceof Date
IsValidDate(v) == DOMAIN v = {"day", "tod"}

\* Days from 1970-01-01 to the civil date y-m-d (proleptic Gregorian).
DaysFromCivil(y, m, d) ==
  LET yy  == IF m <= 2 THEN y - 1 ELSE y
      era == yy \div 400
      yoe == yy - era * 400
      mp  == IF m > 2 THEN m - 3 ELSE m + 9
      doy == (153 * mp + 2) \div 5 + d - 1
      doe == yoe * 365 + yoe \div 4 - yoe \div 100 + doy
  IN era * 146097 + doe - 719468

\* The civil date <<y, m, d>> of a day count.
CivilFromDays(z0) ==
  LET z   == z0 + 719468
      era == z \div 146097
      doe == z - era * 146097
      yoe == (doe - doe \div 1460 + doe \div 36524 - doe \div 146096) \div 365
      doy == doe - (365 * yoe + yoe \div 4 - yoe \div 100)
      mp  == (5 * doy + 2) \div 153
      d   == doy - (153 * mp + 2) \div 5 + 1
      m   == IF mp < 10 THEN mp + 3 ELSE mp - 9
      y   == yoe + era * 400 + (IF m <= 2 THEN 1 ELSE 0)
  IN <<y, m, d>>

\* new Date(year, monthIndex, day): local midnight; monthIndex and day overflow.
NewDate(y, mIdx, d) ==
  [day |-> DaysFromCivil(y + mIdx \div 12, (mIdx % 12) + 1, 1) + d - 1, tod |-> 0]

getFullYear(dt) == CivilFromDays(dt.day)[1]
getMonth(dt) == CivilFromDays(dt.day)[2] - 1
getDate(dt) == CivilFromDays(dt.day)[3]
getDay(dt) == (dt.day + 4) % 7          \* 1970-01-01 was a Thursday
\* Date.prototype.valueOf, in hours
valueOf(dt) == dt.day * 24 + dt.tod

\* new Date(d.getFullYear(), d.getMonth(), d.getDate()): the same local calendar
\* day at time 0; an Invalid Date has NaN fields and gives an Invalid Date.
LocalMidnight(dt) ==
  IF IsValidDate(dt) THEN [day |-> dt.day, tod |-> 0] ELSE InvalidDate

\* A loop that forgets the last day (mutant of CountWeekdays).
RECURSIVE CountWeekdaysExclusive(_, _)
CountWeekdaysExclusive(d, end) ==
  IF d >= end THEN 0
  ELSE (IF (d + 4) % 7 # 0 /\ (d + 4) % 7 # 6 THEN 1 ELSE 0)
       + CountWeekdaysExclusive(d + 1, end)

\* The loop of getBusinessDays: d from start, d <= end, d.setDate(d.getDate() + 1).
RECURSIVE CountWeekdays(_, _)
CountWeekdays(d, end) ==
  IF d > end THEN 0
  ELSE (IF (d + 4) % 7 # 0 /\ (d + 4) % 7 # 6 THEN 1 ELSE 0) + CountWeekdays(d + 1, end)

\* lines 61-68, on the two normalized dates; comparisons with NaN are false
CountBusinessDays(start, end) ==
  IF ~IsValidDate(start) \/ ~IsValidDate(end) THEN 0
  ELSE IF valueOf(start) > valueOf(end) THEN 0
  ELSE CountWeekdays(start.day, end.day)

getBusinessDays(startDate, endDate) ==
  IF ~IsDate(startDate) \/ ~IsDate(endDate) THEN 0
  ELSE CountBusinessDays(LocalMidnight(startDate), LocalMidnight(endDate))

(***************************************************************************)
(* Record Normalizer.                                                      *)
(***************************************************************************)
normalizeName(name) ==
  IF name = <<>> THEN <<>>
  ELSE IF includes(name, <<",">>)
       THEN LET parts == split(name, ",")
                last  == trim(parts[1])
                first == trim(parts[2])
            IN toUpperCase(first \o <<" ">> \o last)
       ELSE toUpperCase(name)

\* A numeric cell of the sheet as text: kind "num" is the text of the number
\* val, followed by a percent sign when pct; "empty" is ''; "junk" is text
\* that parseFloat maps to NaN.
NumCell(v, pct) == [kind |-> "num", val |-> v, pct |-> pct]
EmptyCell == [kind |-> "empty", val |-> Zero, pct |-> FALSE]
JunkCell == [kind |-> "junk", val |-> Zero, pct |-> FALSE]

\* A value that is no text: undefined, null, or a number (typeof 'number').
UndefinedValue == [kind |-> "undefined", val |-> Zero, pct |-> FALSE]
NullValue == [kind |-> "null", val |-> Zero, pct |-> FALSE]
NumberValue(v) == [kind |-> "number", val |-> v, pct |-> FALSE]

\* parseFloat of the cell's text, percent signs removed
parseFloat(cell) == IF cell.kind = "num" THEN cell.val ELSE Norm(0, 0)

RMin(x, y) == IF RGt(x, y) THEN y ELSE x
RMax(x, y) == IF RGt(y, x) THEN y ELSE x

\* The value clamped without the division by 100 (mutant of parsePercent).
parsePercentUnscaled(val) ==
  IF val.kind \in {"undefined", "null", "empty"} THEN Zero
  ELSE LET n == IF val.kind = "number" THEN val.val ELSE parseFloat(val)
       IN IF IsNaN(n) THEN Zero ELSE RMax(Zero, RMin(R(1), n))

parsePercent(val) ==
  IF val.kind \in {"undefined", "null", "empty"} THEN Zero
  ELSE LET n == IF val.kind = "number" THEN val.val ELSE parseFloat(val)
       IN IF IsNaN(n) THEN Zero
          ELSE LET m == IF RGt(n, R(1)) THEN RDiv(n, R(100)) ELSE n
               IN RMax(Zero, RMin(R(1), m))

(***************************************************************************)
(* Period Resolver.                                                        *)
(***************************************************************************)
MonthAbbr ==
  <<"Jan","Feb","Mar","Apr","May","Jun","Jul","Aug","Sep","Oct","Nov","Dec">>
YearWords == <<"2024", "2025", "2026">>
YearOfWord(w) == 2023 + (CHOOSE i \in DOMAIN YearWords : YearWords[i] = w)

\* new Date(`${monthAbbr} ${day}, ${year}`): local midnight of that day, or an
\* Invalid Date when the month word or the year word is not one.
ParseMonthDayYear(monthAbbr, day, yearWord) ==
  IF /\ \E i \in DOMAIN MonthAbbr : MonthAbbr[i] = monthAbbr
     /\ \E i \in DOMAIN YearWords : YearWords[i] = yearWord
  THEN NewDate(YearOfWord(yearWord),
               (CHOOSE i \in DOMAIN MonthAbbr : MonthAbbr[i] = monthAbbr) - 1, day)
  ELSE InvalidDate

\* A "Mon YYYY" label is the sequence of its space-separated words.
getDateRangeFromMonthYear(monthYearStr) ==
  LET monthAbbr == IF Len(monthYearStr) >= 1 THEN monthYearStr[1] ELSE ""
      year      == IF Len(monthYearStr) >= 2 THEN monthYearStr[2] ELSE "undefined"
      startDate == ParseMonthDayYear(monthAbbr, 1, year)
      endDate   == IF IsValidDate(startDate)
                   THEN NewDate(getFullYear(startDate), getMonth(startDate) + 1, 0)
                   ELSE InvalidDate
  IN [startDate |-> startDate, endDate |-> endDate]

\* A 'YYYY-MM-DD' string is the sequence <<y, m, d>> of its fields read as
\* numbers, a field that reads as NaN being 0 (both are falsy); '' is <<>>.
formatDateLocal(date) ==
  IF IsValidDate(date) THEN <<getFullYear(date), getMonth(date) + 1, getDate(date)>>
  ELSE <<0, 0, 0>>

\* The text read as UTC midnight, seen from a time zone five hours behind:
\* the evening of the day before (mutant of parseYMDToLocalDate).
parseYMDAsUTC(ymd) ==
  IF ymd = <<>> THEN Null
  ELSE IF ymd[1] = 0 \/ ymd[2] = 0 \/ ymd[3] = 0 THEN Null
  ELSE [day |-> DaysFromCivil(ymd[1], ymd[2], ymd[3]) - 1, tod |-> 19]

parseYMDToLocalDate(ymd) ==
  IF ymd = <<>> THEN Null
  ELSE IF ymd[1] = 0 \/ ymd[2] = 0 \/ ymd[3] = 0 THEN Null
  ELSE NewDate(ymd[1], ymd[2] - 1, ymd[3])

(***************************************************************************)
(* Allocation selection: month mode and date-range prorating.              *)
(***************************************************************************)
\* Month mode selecting by date overlap with the month (mutant).
MonthSelectedByOverlap(alloc, selectedMonth) ==
  LET range == getDateRangeFromMonthYear(selectedMonth)
  IN /\ IsValidDate(alloc.Start) /\ IsValidDate(alloc.End)
     /\ IsValidDate(range.startDate)
     /\ alloc.Start.day <= range.endDate.day
     /\ alloc.End.day >= range.startDate.day

\* alloc.Month === selectedMonth
MonthSelected(alloc, selectedMonth) == alloc.Month = selectedMonth

\* Math.max / Math.min of two dates: null coerces to 0, an Invalid Date to NaN.
DateNumber(v) == IF IsValidDate(v) THEN valueOf(v) ELSE 0
DateFromNumber(h) == [day |-> h \div 24, tod |-> h % 24]
\* The overlap started at the allocation's start whatever the period (mutant of MaxDate).
MaxDateIgnoringPeriod(a, b) == a

MaxDate(a, b) ==
  IF a = InvalidDate \/ b = InvalidDate THEN InvalidDate
  ELSE DateFromNumber(IF DateNumber(a) >= DateNumber(b) THEN DateNumber(a) ELSE DateNumber(b))
\* The overlap ended at the allocation's end whatever the period (mutant of MinDate).
MinDateIgnoringPeriod(a, b) == a

MinDate(a, b) ==
  IF a = InvalidDate \/ b = InvalidDate THEN InvalidDate
  ELSE DateFromNumber(IF DateNumber(a) <= DateNumber(b) THEN DateNumber(a) ELSE DateNumber(b))

\* Hours scaled by the period's share of business days (mutant of ProratedHours).
ProratedHoursByPeriod(estimatedHours, totalAllocBusinessDays, overlapBusinessDays, totalBusinessDaysInScope) ==
  IF totalBusinessDaysInScope = 0 THEN Zero
  ELSE RMul(RDiv(estimatedHours, R(totalBusinessDaysInScope)), R(overlapBusinessDays))

ProratedHours(estimatedHours, totalAllocBusinessDays, overlapBusinessDays, totalBusinessDaysInScope) ==
  RMul(RDiv(estimatedHours, R(totalAllocBusinessDays)), R(overlapBusinessDays))

\* The row pushed whatever its hours (mutant of PushProrated).
PushProratedAlways(alloc, proratedHours) == <<[alloc EXCEPT !.Hours = proratedHours]>>

\* lines 276-278
PushProrated(alloc, proratedHours) ==
  IF RGt(proratedHours, Zero) THEN <<[alloc EXCEPT !.Hours = proratedHours]>> ELSE <<>>

\* lines 274-279
ProrateByDays(alloc, totalAllocBusinessDays, overlapBusinessDays, totalBusinessDaysInScope) ==
  IF totalAllocBusinessDays > 0
  THEN PushProrated(alloc, ProratedHours(alloc.Hours, totalAllocBusinessDays,
                                         overlapBusinessDays, totalBusinessDaysInScope))
  ELSE <<>>

\* lines 269-280
ProrateOverlap(alloc, oStart, oEnd, totalBusinessDaysInScope) ==
  IF IsValidDate(oStart) /\ IsValidDate(oEnd) /\ valueOf(oStart) <= valueOf(oEnd)
  THEN ProrateByDays(alloc, getBusinessDays(alloc.Start, alloc.End),
                     getBusinessDays(oStart, oEnd), totalBusinessDaysInScope)
  ELSE <<>>

\* One pass of the forEach of the date-range branch: the rows pushed for alloc.
ProrateRow(alloc, startPeriod, endPeriod, totalBusinessDaysInScope) ==
  IF IsValidDate(alloc.Start) /\ IsValidDate(alloc.End)
  THEN ProrateOverlap(alloc, LocalMidnight(MaxDate(alloc.Start, startPeriod)),
                      LocalMidnight(MinDate(alloc.End, endPeriod)),
                      totalBusinessDaysInScope)
  ELSE <<>>

RECURSIVE ProrateAll(_, _, _, _)
ProrateAll(allocs, startPeriod, endPeriod, bd) ==
  IF allocs = <<>> THEN <<>>
  ELSE ProrateRow(Head(allocs), startPeriod, endPeriod, bd)
       \o ProrateAll(Tail(allocs), startPeriod, endPeriod, bd)

RECURSIVE FilterMonth(_, _)
FilterMonth(allocs, selectedMonth) ==
  IF allocs = <<>> THEN <<>>
  ELSE (IF MonthSelected(Head(allocs), selectedMonth) THEN <<Head(allocs)>> ELSE <<>>)
       \o FilterMonth(Tail(allocs), selectedMonth)

\* The period and the selected allocations of the month branch, lines 243-250.
MonthSelection(allocs, selectedMonth, range) ==
  [totalBusinessDaysInScope |-> getBusinessDays(range.startDate, range.endDate),
   filteredAllocations |-> FilterMonth(allocs, selectedMonth)]

\* The date-range branch once the period is parsed, lines 256-282.
ProratedSelection(allocs, startPeriod, endPeriod, totalBusinessDaysInScope) ==
  [totalBusinessDaysInScope |-> totalBusinessDaysInScope,
   filteredAllocations |->
     ProrateAll(allocs, startPeriod, endPeriod, totalBusinessDaysInScope)]

DateRangeSelection(allocs, startPeriod, endPeriod) ==
  ProratedSelection(allocs, startPeriod, endPeriod,
                    getBusinessDays(startPeriod, endPeriod))

\* The period and the selected allocations of one computation, lines 239-283.
Selection(allocs, filterMode, selectedMonth, startDate, endDate) ==
  IF filterMode = "month"
  THEN MonthSelection(allocs, selectedMonth, getDateRangeFromMonthYear(selectedMonth))
  ELSE IF filterMode = "dateRange" /\ startDate # <<>> /\ endDate # <<>>
  THEN DateRangeSelection(allocs, parseYMDToLocalDate(startDate),
                          parseYMDToLocalDate(endDate))
  ELSE [totalBusinessDaysInScope |-> 0, filteredAllocations |-> <<>>]

(***************************************************************************)
(* Category Classifier.                                                    *)
(***************************************************************************)
TagPTO == <<"[", "P", "T", "O", "]">>
TagINT == <<"[", "I", "N", "T", "]">>
TagENV == <<"[", "E", "N", "V", "]">>
TagPNB == <<"P", "N", "B", ":">>

\* The bracket tags recognised in any case (mutant of Flags).
FlagsInAnyCase(projectFromTask) ==
  [hasPTO |-> includes(toUpperCase(projectFromTask), TagPTO),
   hasINT |-> includes(toUpperCase(projectFromTask), TagINT),
   isENV  |-> includes(toUpperCase(projectFromTask), TagENV),
   isPNB  |-> includes(toUpperCase(projectFromTask), TagPNB)]

\* The classification flags of a task label, lines 290-293.
Flags(projectFromTask) ==
  [hasPTO |-> includes(projectFromTask, TagPTO),
   hasINT |-> includes(projectFromTask, TagINT),
   isENV  |-> includes(projectFromTask, TagENV),
   isPNB  |-> includes(toUpperCase(projectFromTask), TagPNB)]

\* if (!filters.env && isENV) return; if (!filters.pnb && isPNB) return;
DroppedByToggles(flags, filters) ==
  \/ ~filters.env /\ flags.isENV
  \/ ~filters.pnb /\ flags.isPNB

keySuffix(flags) ==
  IF flags.hasPTO THEN <<"P", "T", "O">>
  ELSE IF flags.hasINT THEN <<"I", "N", "T">>
  ELSE IF flags.isPNB THEN <<"P", "N", "B">>
  ELSE <<"G", "E", "N">>

(***************************************************************************)
(* Aggregator.                                                             *)
(***************************************************************************)
TOTAL_ANNUAL_HOURS == 2080
totalAnnualBusinessDays == 260

\* namesMap: the roster keyed by normalized name, a later row replacing an
\* earlier one with the same key.
RosterKeys(namesData) ==
  {normalizeName(namesData[i].Name) : i \in DOMAIN namesData} \ {<<>>}
NamesMap(namesData) ==
  [k \in RosterKeys(namesData) |->
     LET i == CHOOSE j \in DOMAIN namesData :
                /\ normalizeName(namesData[j].Name) = k
                /\ \A l \in DOMAIN namesData :
                     normalizeName(namesData[l].Name) = k => l <= j
         person == namesData[i]
     IN [department |-> person.Department, title |-> person.Title,
         billingTargetPercent |-> parsePercent(person.PercentageBillable)]]

\* A lookup that makes up a record for an unknown resource (mutant of Lookup).
LookupOrCreate(namesMap, normalizedResource) ==
  IF normalizedResource \in DOMAIN namesMap
  THEN <<namesMap[normalizedResource]>>
  ELSE <<[department |-> "Unknown", title |-> "", billingTargetPercent |-> Zero]>>

\* namesMap.get(normalizedResource): <<personDetails>>, or <<>> for undefined
Lookup(namesMap, normalizedResource) ==
  IF normalizedResource \in DOMAIN namesMap
  THEN <<namesMap[normalizedResource]>>
  ELSE <<>>

IndexOfKey(seq, key) ==
  IF \E i \in DOMAIN seq : seq[i].key = key
  THEN CHOOSE i \in DOMAIN seq : seq[i].key = key
  ELSE 0

firstPart(str) == trim(split(str, ":")[1])      \* str.split(':')[0].trim()

\* PTO hours booked as ordinary hours too (mutant of AddHours).
AddHoursCountingPTO(emp, flags, hours) ==
  IF flags.hasPTO
  THEN [emp EXCEPT !.ptoHours = RAdd(@, hours), !.totalBookedHours = RAdd(@, hours)]
  ELSE IF flags.hasINT
  THEN [emp EXCEPT !.intHours = RAdd(@, hours)]
  ELSE IF ~flags.isPNB
  THEN [emp EXCEPT !.totalBookedHours = RAdd(@, hours), !.bookedBillable = RAdd(@, hours)]
  ELSE [emp EXCEPT !.totalBookedHours = RAdd(@, hours),
                   !.bookedNonBillable = RAdd(@, hours)]

\* The running totals of one employee, lines 317-328.
AddHours(emp, flags, hours) ==
  IF flags.hasPTO
  THEN [emp EXCEPT !.ptoHours = RAdd(@, hours)]
  ELSE IF flags.hasINT
  THEN [emp EXCEPT !.intHours = RAdd(@, hours)]
  ELSE IF ~flags.isPNB
  THEN [emp EXCEPT !.totalBookedHours = RAdd(@, hours), !.bookedBillable = RAdd(@, hours)]
  ELSE [emp EXCEPT !.totalBookedHours = RAdd(@, hours),
                   !.bookedNonBillable = RAdd(@, hours)]

\* lines 334-343: the entry of projectKey created if absent, then its hours raised
PutProject(projects, projectKey, entry, hours) ==
  IF IndexOfKey(projects, projectKey) = 0
  THEN Append(projects, [entry EXCEPT !.hours = hours])
  ELSE [projects EXCEPT ![IndexOfKey(projects, projectKey)].hours = RAdd(@, hours)]

\* PNB entries shown as billable, for comparison.
ProjectEntryPnbBillable(projectKey, truncatedProjectName, task, flags) ==
  [key  |-> projectKey,
   name |-> IF truncatedProjectName # <<>> THEN truncatedProjectName ELSE task,
   task |-> task,
   hours |-> Zero,
   isBillable |-> ~(flags.hasPTO \/ flags.hasINT)]

\* lines 335-341: a new entry of the breakdown
ProjectEntry(projectKey, truncatedProjectName, task, flags) ==
  [key  |-> projectKey,
   name |-> IF truncatedProjectName # <<>> THEN truncatedProjectName ELSE task,
   task |-> task,
   hours |-> Zero,
   isBillable |-> ~(flags.hasPTO \/ flags.hasINT \/ flags.isPNB)]

ProjectKey(normalizedResource, truncatedProjectName, flags) ==
  normalizedResource \o <<"-">> \o truncatedProjectName \o <<"-">> \o keySuffix(flags)

AddProjectNamed(emp, normalizedResource, truncatedProjectName, task, flags, hours) ==
  [emp EXCEPT !.projects =
     PutProject(@, ProjectKey(normalizedResource, truncatedProjectName, flags),
                ProjectEntry(ProjectKey(normalizedResource, truncatedProjectName, flags),
                             truncatedProjectName, task, flags),
                hours)]

\* The project breakdown of one employee, lines 330-343.
AddProject(emp, normalizedResource, alloc, flags, hours) ==
  AddProjectNamed(emp, normalizedResource, firstPart(alloc.Name),
                  firstPart(alloc.Project), flags, hours)

\* lines 302-313: the record of a resource seen for the first time
FreshEmployee(normalizedResource, personDetails, alloc) ==
  [key |-> normalizedResource,
   department |-> personDetails.department,
   title |-> personDetails.title,
   billingTargetPercent |-> personDetails.billingTargetPercent,
   nameForDisplay |-> alloc.Resource,
   totalBookedHours |-> Zero, bookedBillable |-> Zero,
   bookedNonBillable |-> Zero, ptoHours |-> Zero,
   intHours |-> Zero, projects |-> <<>>]

\* lines 314-343 on the record at position i
Accumulate(metrics, i, normalizedResource, alloc, flags) ==
  [metrics EXCEPT ![i] =
     AddProject(AddHours(@, flags, alloc.Hours), normalizedResource, alloc, flags,
                alloc.Hours)]

EnsureEmployee(employeeMetrics, normalizedResource, personDetails, alloc) ==
  IF IndexOfKey(employeeMetrics, normalizedResource) = 0
  THEN Append(employeeMetrics, FreshEmployee(normalizedResource, personDetails, alloc))
  ELSE employeeMetrics

AccumulateFor(metrics, normalizedResource, alloc, flags) ==
  Accumulate(metrics, IndexOfKey(metrics, normalizedResource), normalizedResource,
             alloc, flags)

\* The department filter left out (mutant of AggregateFound).
AggregateFoundAnyDepartment(employeeMetrics, alloc, flags, normalizedResource, found, selectedDepartment) ==
  IF found # <<>>
  THEN AccumulateFor(EnsureEmployee(employeeMetrics, normalizedResource, found[1], alloc),
                     normalizedResource, alloc, flags)
  ELSE employeeMetrics

\* lines 300-344 once the resource is looked up
AggregateFound(employeeMetrics, alloc, flags, normalizedResource, found, selectedDepartment) ==
  IF found # <<>> /\ (selectedDepartment = "All"
                      \/ found[1].department = selectedDepartment)
  THEN AccumulateFor(EnsureEmployee(employeeMetrics, normalizedResource, found[1], alloc),
                     normalizedResource, alloc, flags)
  ELSE employeeMetrics

AggregateResource(employeeMetrics, alloc, flags, normalizedResource, namesMap, selectedDepartment) ==
  AggregateFound(employeeMetrics, alloc, flags, normalizedResource,
                 Lookup(namesMap, normalizedResource), selectedDepartment)

AggregateFlagged(employeeMetrics, alloc, flags, namesMap, selectedDepartment, filters) ==
  IF DroppedByToggles(flags, filters) THEN employeeMetrics
  ELSE AggregateResource(employeeMetrics, alloc, flags, normalizeName(alloc.Resource),
                         namesMap, selectedDepartment)

\* One pass of filteredAllocations.forEach, lines 286-345.
AggregateRow(employeeMetrics, alloc, namesMap, selectedDepartment, filters) ==
  AggregateFlagged(employeeMetrics, alloc, Flags(alloc.Project), namesMap,
                   selectedDepartment, filters)

RECURSIVE AggregateAll(_, _, _, _, _)
AggregateAll(employeeMetrics, allocs, namesMap, selectedDepartment, filters) ==
  IF allocs = <<>> THEN employeeMetrics
  ELSE AggregateAll(
         AggregateRow(employeeMetrics, Head(allocs), namesMap, selectedDepartment, filters),
         Tail(allocs), namesMap, selectedDepartment, filters)

\* A ratio without the zero test (mutant of the guarded ratios).
UnguardedPercent(num, den) == RMul(RDiv(num, den), R(100))

\* required > 0 ? (bookedBillable / required) * 100 : 0, line 350
PercentToTarget(bookedBillable, totalRequiredBillableHours) ==
  IF RGt(totalRequiredBillableHours, Zero)
  THEN RMul(RDiv(bookedBillable, totalRequiredBillableHours), R(100)) ELSE Zero

\* potentialHours > 0 ? (totalBookedHours / potentialHours) * 100 : 0, line 352
UtilizationPercent(totalBookedHours, potentialHours) ==
  IF RGt(potentialHours, Zero)
  THEN RMul(RDiv(totalBookedHours, potentialHours), R(100)) ELSE Zero

\* d.requiredBillableHours > 0 ? (d.bookedBillable / d.requiredBillableHours) * 100 : 0
DepartmentUtilization(bookedBillable, requiredBillableHours) ==
  IF RGt(requiredBillableHours, Zero)
  THEN RMul(RDiv(bookedBillable, requiredBillableHours), R(100)) ELSE Zero

\* overall.requiredBillableHours > 0 ? ... : 0, lines 404-406
OverallUtilization(bookedBillable, requiredBillableHours) ==
  IF RGt(requiredBillableHours, Zero)
  THEN RMul(RDiv(bookedBillable, requiredBillableHours), R(100)) ELSE Zero

HoursPerBusinessDay == RDiv(R(TOTAL_ANNUAL_HOURS), R(totalAnnualBusinessDays))

EmployeeRecord(e, totalRequiredBillableHours, percentToTarget, potentialHours) ==
  [key |-> e.key, department |-> e.department, title |-> e.title,
   billingTargetPercent |-> e.billingTargetPercent,
   nameForDisplay |-> e.nameForDisplay,
   totalBookedHours |-> e.totalBookedHours,
   bookedBillable |-> e.bookedBillable,
   bookedNonBillable |-> e.bookedNonBillable,
   ptoHours |-> e.ptoHours, intHours |-> e.intHours,
   projects |-> e.projects,
   requiredBillableHours |-> totalRequiredBillableHours,
   targetPercentDisplay |-> RMul(e.billingTargetPercent, R(100)),
   percentToTarget |-> percentToTarget,
   utilization |-> percentToTarget,
   utilizationPercent |-> UtilizationPercent(e.totalBookedHours, potentialHours)]

EmployeeWithRequired(e, totalRequiredBillableHours, totalBusinessDaysInScope) ==
  EmployeeRecord(e, totalRequiredBillableHours,
                 PercentToTarget(e.bookedBillable, totalRequiredBillableHours),
                 RMul(HoursPerBusinessDay, R(totalBusinessDaysInScope)))

\* A twelfth of the annual hours whatever the period (mutant of RequiredBillableHours).
RequiredHoursOfAMonth(billingTargetPercent, totalBusinessDaysInScope) ==
  RDiv(RMul(billingTargetPercent, R(TOTAL_ANNUAL_HOURS)), R(12))

\* line 349
RequiredBillableHours(billingTargetPercent, totalBusinessDaysInScope) ==
  RMul(RDiv(RMul(billingTargetPercent, R(TOTAL_ANNUAL_HOURS)), R(totalAnnualBusinessDays)),
       R(totalBusinessDaysInScope))

\* The map of lines 347-364 for one employee.
EmployeeResult(e, totalBusinessDaysInScope) ==
  EmployeeWithRequired(
    e, RequiredBillableHours(e.billingTargetPercent, totalBusinessDaysInScope),
    totalBusinessDaysInScope)

\* Every employee of the list taken into the rollups (mutant of IsActiveForTotals).
IsListedForTotals(e) == e.key = e.key

\* allEmployees.filter(e => e.bookedBillable >= 1)
IsActiveForTotals(e) == RGe(e.bookedBillable, R(1))

RECURSIVE SelectActive(_)
SelectActive(employees) ==
  IF employees = <<>> THEN <<>>
  ELSE (IF IsActiveForTotals(Head(employees)) THEN <<Head(employees)>> ELSE <<>>)
       \o SelectActive(Tail(employees))

\* The department row without its employee count, for comparison.
DepartmentRowUncounted(departmentMap, e) ==
  LET fresh == [key |-> e.department, name |-> e.department, bookedBillable |-> Zero,
                requiredBillableHours |-> Zero, totalBookedHours |-> Zero,
                employeeCount |-> 0]
      map == IF IndexOfKey(departmentMap, e.department) = 0
             THEN Append(departmentMap, fresh) ELSE departmentMap
      i == IndexOfKey(map, e.department)
  IN [map EXCEPT ![i] =
        [@ EXCEPT !.bookedBillable = RAdd(@, e.bookedBillable),
                  !.requiredBillableHours = RAdd(@, e.requiredBillableHours),
                  !.totalBookedHours = RAdd(@, e.totalBookedHours)]]

\* One pass of activeEmployeesForTotals.forEach, lines 369-384.
DepartmentRow(departmentMap, e) ==
  LET fresh == [key |-> e.department, name |-> e.department, bookedBillable |-> Zero,
                requiredBillableHours |-> Zero, totalBookedHours |-> Zero,
                employeeCount |-> 0]
      map == IF IndexOfKey(departmentMap, e.department) = 0
             THEN Append(departmentMap, fresh) ELSE departmentMap
      i == IndexOfKey(map, e.department)
  IN [map EXCEPT ![i] =
        [@ EXCEPT !.bookedBillable = RAdd(@, e.bookedBillable),
                  !.requiredBillableHours = RAdd(@, e.requiredBillableHours),
                  !.totalBookedHours = RAdd(@, e.totalBookedHours),
                  !.employeeCount = @ + 1]]

RECURSIVE DepartmentMap(_, _)
DepartmentMap(departmentMap, active) ==
  IF active = <<>> THEN departmentMap
  ELSE DepartmentMap(DepartmentRow(departmentMap, Head(active)), Tail(active))

\* The map of lines 386-394 for one department.
DepartmentResult(d, totalBusinessDaysInScope) ==
  [key |-> d.key, name |-> d.name, bookedBillable |-> d.bookedBillable,
   requiredBillableHours |-> d.requiredBillableHours,
   totalBookedHours |-> d.totalBookedHours, employeeCount |-> d.employeeCount,
   utilization |-> DepartmentUtilization(d.bookedBillable, d.requiredBillableHours),
   totalPotentialHours |->
     RMul(RMul(HoursPerBusinessDay, R(totalBusinessDaysInScope)), R(d.employeeCount))]

RECURSIVE SumField(_, _)
SumField(seq, f) ==
  IF seq = <<>> THEN Zero ELSE RAdd(SumField(SubSeq(seq, 1, Len(seq) - 1), f), seq[Len(seq)][f])

OverallRecord(active, bookedBillable, requiredBillableHours, totalBusinessDaysInScope) ==
  [bookedBillable |-> bookedBillable,
   bookedNonBillable |-> SumField(active, "bookedNonBillable"),
   totalBookedHours |-> SumField(active, "totalBookedHours"),
   requiredBillableHours |-> requiredBillableHours,
   employeeCount |-> Len(active),
   totalBusinessDaysInScope |-> totalBusinessDaysInScope,
   utilization |-> OverallUtilization(bookedBillable, requiredBillableHours)]

\* The overall record of lines 396-406.
Overall(active, totalBusinessDaysInScope) ==
  OverallRecord(active, SumField(active, "bookedBillable"),
                SumField(active, "requiredBillableHours"), totalBusinessDaysInScope)

EmployeeResults(employeeMetrics, totalBusinessDaysInScope) ==
  [i \in DOMAIN employeeMetrics |->
     EmployeeResult(employeeMetrics[i], totalBusinessDaysInScope)]

DepartmentResults(departmentMap, totalBusinessDaysInScope) ==
  [i \in DOMAIN departmentMap |->
     DepartmentResult(departmentMap[i], totalBusinessDaysInScope)]

NoAnalysis == [computed |-> FALSE]

\* lines 366-408; the result also records the allocations selected for
\* aggregation (filteredAllocations).
Rollup(allEmployees, active, sel) ==
  [computed |-> TRUE,
   employees |-> allEmployees,
   departments |-> DepartmentResults(DepartmentMap(<<>>, active),
                                     sel.totalBusinessDaysInScope),
   overall |-> Overall(active, sel.totalBusinessDaysInScope),
   totalBusinessDaysInScope |-> sel.totalBusinessDaysInScope,
   filteredAllocations |-> sel.filteredAllocations]

Totals(allEmployees, sel) == Rollup(allEmployees, SelectActive(allEmployees), sel)

\* lines 285-408
AnalyzeSelection(namesMap, sel, selectedDepartment, filters) ==
  Totals(EmployeeResults(AggregateAll(<<>>, sel.filteredAllocations, namesMap,
                                      selectedDepartment, filters),
                         sel.totalBusinessDaysInScope),
         sel)

\* line 225: the memo is null
NothingToAnalyze(isDataLoaded, namesData, allocationsData) ==
  ~isDataLoaded \/ Len(namesData) = 0 \/ Len(allocationsData) = 0

\* The body of the `analysis` memo, lines 224-409.
Analyze(isDataLoaded, namesData, allocationsData, filterMode, selectedMonth, startDate, endDate, selectedDepartment, filters) ==
  IF NothingToAnalyze(isDataLoaded, namesData, allocationsData) THEN NoAnalysis
  ELSE AnalyzeSelection(NamesMap(namesData),
                        Selection(allocationsData, filterMode, selectedMonth,
                                  startDate, endDate),
                        selectedDepartment, filters)

(***************************************************************************)
(* parseCsvData: the typed rows of a sheet.  A date cell is the text of    *)
(* the cell: fmt "mdy" is MM/DD/YYYY with the numbers mm, dd, yyyy; fmt    *)
(* "mon-dd" is three letters mon, a dash and the number dd; fmt "text" is  *)
(* text of no recognised form; fmt "empty" is ''.                          *)
(***************************************************************************)
DateCell(fmt, mon, mm, dd, yyyy) ==
  [fmt |-> fmt, mon |-> mon, mm |-> mm, dd |-> dd, yyyy |-> yyyy]
MDY(mm, dd, yyyy) == DateCell("mdy", "", mm, dd, yyyy)
MonDD(mon, dd) == DateCell("mon-dd", mon, 0, dd, 0)
EmptyDateCell == DateCell("empty", "", 0, 0, 0)
TextDateCell == DateCell("text", "", 0, 0, 0)

currentYear == "2025"        \* new Date().getFullYear(), as the template prints it

\* lines 204-214: a recognised cell becomes a Date, any other stays the text
ParseDateCell(value) ==
  IF value.fmt = "mdy" THEN NewDate(value.yyyy, value.mm - 1, value.dd)
  ELSE IF value.fmt = "mon-dd" THEN ParseMonthDayYear(value.mon, value.dd, currentYear)
  ELSE value

\* line 216: parseFloat(value) || 0
ParseHoursCell(value) ==
  LET n == parseFloat(value) IN IF IsNaN(n) \/ n = Zero THEN Zero ELSE n

ParseAllocationRow(row) ==
  [Resource |-> row.Resource, Name |-> row.Name, Project |-> row.Project,
   Hours |-> ParseHoursCell(row.EstimatedHours),
   Start |-> ParseDateCell(row.StartDate), End |-> ParseDateCell(row.EndDate),
   Month |-> row.Month]

\* parseCsvData on the text of the Allocations sheet and of the Names sheet
parseCsvAllocations(sheet) == [i \in DOMAIN sheet |-> ParseAllocationRow(sheet[i])]
parseCsvNames(sheet) == sheet

(***************************************************************************)
(* The sheets the server may hold.                                         *)
(***************************************************************************)
Person(name, department, title, pct) ==
  [Name |-> name, Department |-> department, Title |-> title, PercentageBillable |-> pct]
AllocRow(resource, name, project, hours, start, end, month) ==
  [Resource |-> resource, Name |-> name, Project |-> project, EstimatedHours |-> hours,
   StartDate |-> start, EndDate |-> end, Month |-> month]

DoeJane == <<"D","o","e",","," ","J","a","n","e">>
RoeBob  == <<"R","o","e"," ",",","B","o","b">>
JaneDoe == <<"J","a","n","e"," ","D","o","e">>
BobRoe  == <<"B","o","b"," ","R","o","e">>
SamLow  == <<"S","a","m"," ","L","o","w">>
ProjXBuild == <<"P","r","o","j","X",":"," ","B","u","i","l","d">>
ProjX == <<"P","r","o","j","X">>
ProjZ == <<"P","r","o","j","Z">>
LabelPtoPnb == <<"[","P","T","O","]"," ","P","N","B",":"," ","o","f","f">>
LabelPnbLower == <<"p","n","b",":"," ","a","d","m">>
LabelPnb == <<"P","N","B",":"," ","r","e","v">>
LabelEnv == <<"P","r","o","j","X"," ","[","E","N","V","]">>
LabelInt == <<"[","I","N","T","]"," ","m","t","g">>
Jan2025 == <<"Jan", "2025">>
Q12025 == <<"Q1", "2025">>
AllMonths == <<"All">>
NoMonth == <<>>

RosterA ==
  << Person(DoeJane, "Eng", "Engineer", NumCell(R(80), TRUE)),
     Person(RoeBob, "Ops", "Analyst", NumCell(Zero, FALSE)) >>
RosterB ==
  << Person(DoeJane, "Ops", "Engineer", NumCell(Norm(1, 2), FALSE)),
     Person(RoeBob, "Ops", "Analyst", JunkCell) >>
RosterSheets == {RosterA, RosterB}

SheetA ==
  << AllocRow(JaneDoe, ProjXBuild, ProjXBuild, NumCell(R(100), FALSE),
              MDY(1, 1, 2025), MDY(1, 10, 2025), Jan2025),
     AllocRow(JaneDoe, ProjX, LabelPtoPnb, NumCell(R(8), FALSE),
              MDY(1, 6, 2025), MDY(1, 6, 2025), Jan2025),
     AllocRow(BobRoe, ProjZ, ProjZ, NumCell(R(40), FALSE),
              MDY(1, 8, 2025), MDY(1, 21, 2025), Jan2025),
     AllocRow(BobRoe, ProjZ, LabelPnbLower, NumCell(R(-4), FALSE),
              MDY(1, 2, 2025), MDY(1, 3, 2025), Jan2025),
     AllocRow(SamLow, ProjX, ProjX, NumCell(R(16), FALSE),
              MDY(1, 6, 2025), MDY(1, 7, 2025), Jan2025),
     AllocRow(JaneDoe, ProjX, LabelEnv, NumCell(R(5), FALSE),
              MDY(2, 3, 2025), MDY(2, 4, 2025), Jan2025) >>
SheetB ==
  << AllocRow(JaneDoe, ProjX, LabelInt, NumCell(R(3), FALSE),
              MonDD("Jan", 8), MonDD("Jan", 9), Q12025),
     AllocRow(BobRoe, ProjZ, LabelPnb, NumCell(R(6), FALSE),
              MDY(1, 7, 2025), MDY(1, 8, 2025), Jan2025),
     AllocRow(BobRoe, ProjZ, ProjZ, NumCell(Norm(1, 2), FALSE),
              MDY(1, 11, 2025), MDY(1, 12, 2025), Jan2025),
     AllocRow(JaneDoe, ProjX, ProjX, JunkCell, TextDateCell, EmptyDateCell, NoMonth),
     AllocRow(JaneDoe, ProjX, ProjX, NumCell(R(20), FALSE),
              MDY(1, 9, 2025), MDY(1, 1, 2025), Q12025) >>
AllocationSheets == {SheetA, SheetB}

\* The values a user types into the two date inputs.
StartDateInputs == {<<2025, 1, 13>>}
EndDateInputs == {<<>>, <<2025, 1, 10>>}

MaxCycles == 2

\* The dates handed to getBusinessDays on its own: the days from Monday
\* 2024-12-23 on, at midnight and in the afternoon.
MaxSpan == 20
CallDates ==
  {[day |-> d, tod |-> t] :
     d \in DaysFromCivil(2024, 12, 23) .. DaysFromCivil(2024, 12, 23) + MaxSpan,
     t \in {0, 15}}

(***************************************************************************)
(* The App component.                                                      *)
(***************************************************************************)
VARIABLES
  namesData, allocationsData,      \* useState([]) tables, lines 136-137
  isLoading, isDataLoaded, error,  \* lines 139-141
  filterMode, selectedMonth, startDate, endDate, selectedDepartment, filters,
  rendered,                        \* the tables the last render read (memo dependencies)
  pc,                              \* position of fetchDataFromSheet
  namesResponse, allocationsResponse,
  cycle,                           \* refresh cycles started so far
  namesCycle, allocationsCycle,    \* the cycle that wrote each table (history)
  lastGood,                        \* the tables at the end of the last successful cycle
  call                             \* a call of a helper function and its result

vars == <<namesData, allocationsData, isLoading, isDataLoaded, error, filterMode,
          selectedMonth, startDate, endDate, selectedDepartment, filters, rendered,
          pc, namesResponse, allocationsResponse, cycle, namesCycle,
          allocationsCycle, lastGood, call>>

filterVars == <<filterMode, selectedMonth, startDate, endDate, selectedDepartment, filters>>
tableVars == <<namesData, allocationsData, namesCycle, allocationsCycle>>
fetchVars == <<pc, namesResponse, allocationsResponse, cycle>>

NoError == "null"
NoCall == [op |-> "none"]
NoResponse == [ok |-> FALSE]

currentMonthYear == Jan2025       \* getCurrentMonthYear() at mount
currentMonthRange ==              \* getCurrentMonthDateRange() at mount
  LET r == getDateRangeFromMonthYear(currentMonthYear)
  IN [start |-> formatDateLocal(r.startDate), end |-> formatDateLocal(r.endDate)]

Init ==
  /\ namesData = <<>> /\ allocationsData = <<>>
  /\ isLoading = TRUE /\ isDataLoaded = FALSE /\ error = NoError
  /\ filterMode = "month" /\ selectedMonth = currentMonthYear
  /\ startDate = currentMonthRange.start /\ endDate = currentMonthRange.end
  /\ selectedDepartment = "All"
  /\ filters = [env |-> FALSE, pnb |-> FALSE]
  /\ rendered = [isDataLoaded |-> FALSE, namesData |-> <<>>, allocationsData |-> <<>>,
                  namesCycle |-> 0, allocationsCycle |-> 0]
  /\ pc = "idle"
  /\ namesResponse = NoResponse /\ allocationsResponse = NoResponse
  /\ cycle = 0 /\ namesCycle = 0 /\ allocationsCycle = 0
  /\ lastGood = [names |-> <<>>, allocations |-> <<>>]
  /\ call = NoCall


\* The value of the `analysis` memo: computed at the last render from its
\* dependencies (line 409).  A handler of a user event renders before it
\* returns, so the filter dependencies are always the current ones.
analysis ==
  Analyze(rendered.isDataLoaded, rendered.namesData, rendered.allocationsData,
          filterMode, selectedMonth, startDate, endDate, selectedDepartment, filters)

\* A render: the memo reads the state just written.
Render ==
  rendered' = [isDataLoaded |-> isDataLoaded', namesData |-> namesData',
               allocationsData |-> allocationsData',
               namesCycle |-> namesCycle', allocationsCycle |-> allocationsCycle']

\* The catch block alone, lines 167-169, for comparison.
CatchWithoutFinally ==
  /\ error' = "Error fetching data"
  /\ isLoading' = isLoading
  /\ pc' = "idle"
  /\ namesResponse' = NoResponse /\ allocationsResponse' = NoResponse

\* catch and finally, lines 167-172
CatchAndFinally ==
  /\ error' = "Error fetching data"
  /\ isLoading' = FALSE
  /\ pc' = "idle"
  /\ namesResponse' = NoResponse /\ allocationsResponse' = NoResponse

\* fetchDataFromSheet up to the await of Promise.all, lines 153-159; called by
\* the mount effect (line 175) and by the Refresh button (line 547).
FetchStart ==
  /\ pc = "idle" /\ cycle < MaxCycles
  /\ cycle = 0 \/ ~isLoading
  /\ isLoading' = TRUE /\ error' = NoError
  /\ pc' = "fetching" /\ cycle' = cycle + 1
  /\ UNCHANGED <<namesResponse, allocationsResponse, tableVars, isDataLoaded,
                 filterVars, lastGood, call>>
  /\ Render

\* Promise.all rejects: one of the two fetches failed.
FetchRejects ==
  /\ pc = "fetching"
  /\ CatchAndFinally
  /\ UNCHANGED <<cycle, tableVars, isDataLoaded, filterVars, lastGood, call>>
  /\ Render

\* Both responses arrive and the Names response is not ok, line 160.
NamesResponseNotOk ==
  /\ pc = "fetching"
  /\ CatchAndFinally
  /\ UNCHANGED <<cycle, tableVars, isDataLoaded, filterVars, lastGood, call>>
  /\ Render

\* Both responses arrive and the Names response is ok: await namesResponse.text().
NamesResponseOk ==
  /\ pc = "fetching"
  /\ namesResponse' = [ok |-> TRUE]
  /\ \E allocationsOk \in BOOLEAN : allocationsResponse' = [ok |-> allocationsOk]
  /\ pc' = "namesText"
  /\ UNCHANGED <<cycle, tableVars, isLoading, isDataLoaded, error, filterVars,
                 rendered, lastGood, call>>

\* namesResponse.text() rejects.
NamesTextRejects ==
  /\ pc = "namesText"
  /\ CatchAndFinally
  /\ UNCHANGED <<cycle, tableVars, isDataLoaded, filterVars, lastGood, call>>
  /\ Render

\* Lines 161-164 with an Allocations response that is not ok: the roster is
\* stored, then the throw of line 163 is caught.
NamesTextThenAllocationsNotOk ==
  /\ pc = "namesText" /\ ~allocationsResponse.ok
  /\ \E namesText \in RosterSheets : namesData' = parseCsvNames(namesText)
  /\ namesCycle' = cycle
  /\ CatchAndFinally
  /\ UNCHANGED <<cycle, allocationsData, allocationsCycle, isDataLoaded, filterVars,
                 lastGood, call>>
  /\ Render

\* Lines 161-164 with an Allocations response that is ok: the roster is stored
\* and the function awaits allocationsResponse.text().  React may render
\* before the function resumes.
NamesTextThenAwait ==
  /\ pc = "namesText" /\ allocationsResponse.ok
  /\ \E namesText \in RosterSheets : namesData' = parseCsvNames(namesText)
  /\ namesCycle' = cycle
  /\ pc' = "allocationsText"
  /\ UNCHANGED <<cycle, namesResponse, allocationsResponse, allocationsData,
                 allocationsCycle, isLoading, isDataLoaded, error, filterVars, lastGood, call>>
  /\ \/ Render
     \/ UNCHANGED rendered

\* allocationsResponse.text() rejects.
AllocationsTextRejects ==
  /\ pc = "allocationsText"
  /\ CatchAndFinally
  /\ UNCHANGED <<cycle, tableVars, isDataLoaded, filterVars, lastGood, call>>
  /\ Render

\* Lines 165-166 and finally.
AllocationsTextArrives ==
  /\ pc = "allocationsText"
  /\ \E allocationsText \in AllocationSheets :
       allocationsData' = parseCsvAllocations(allocationsText)
  /\ allocationsCycle' = cycle
  /\ isDataLoaded' = TRUE
  /\ isLoading' = FALSE
  /\ pc' = "idle"
  /\ namesResponse' = NoResponse /\ allocationsResponse' = NoResponse
  /\ lastGood' = [names |-> namesData, allocations |-> allocationsData']
  /\ UNCHANGED <<cycle, namesData, namesCycle, error, filterVars, call>>
  /\ Render

(***************************************************************************)
(* The filter controls, rendered when isDataLoaded && analysis (line 563). *)
(***************************************************************************)
FiltersShown ==
  /\ isDataLoaded
  /\ ~NothingToAnalyze(rendered.isDataLoaded, rendered.namesData, rendered.allocationsData)

\* uniqueMonths, lines 430-442, as a set
uniqueMonths ==
  {AllMonths} \cup ({allocationsData[i].Month : i \in DOMAIN allocationsData} \ {NoMonth})

UserStep ==
  /\ FiltersShown
  /\ UNCHANGED <<tableVars, fetchVars, isLoading, isDataLoaded, error, lastGood, call>>

ClickMonth ==
  /\ UserStep
  /\ filterMode' = "month"
  /\ UNCHANGED <<selectedMonth, startDate, endDate, selectedDepartment, filters>>
  /\ Render

ClickDateRange ==
  /\ UserStep
  /\ filterMode' = "dateRange"
  /\ LET r == getDateRangeFromMonthYear(selectedMonth)
     IN /\ startDate' = formatDateLocal(r.startDate)
        /\ endDate' = formatDateLocal(r.endDate)
  /\ UNCHANGED <<selectedMonth, selectedDepartment, filters>>
  /\ Render

SelectMonth ==
  /\ UserStep /\ filterMode = "month"
  /\ \E m \in uniqueMonths : selectedMonth' = m
  /\ UNCHANGED <<filterMode, startDate, endDate, selectedDepartment, filters>>
  /\ Render

ChangeStartDate ==
  /\ UserStep /\ filterMode = "dateRange"
  /\ \E d \in StartDateInputs : startDate' = d
  /\ UNCHANGED <<filterMode, selectedMonth, endDate, selectedDepartment, filters>>
  /\ Render

ChangeEndDate ==
  /\ UserStep /\ filterMode = "dateRange"
  /\ \E d \in EndDateInputs : endDate' = d
  /\ UNCHANGED <<filterMode, selectedMonth, startDate, selectedDepartment, filters>>
  /\ Render

ToggleEnv ==
  /\ UserStep
  /\ filters' = [filters EXCEPT !.env = ~@]
  /\ UNCHANGED <<filterMode, selectedMonth, startDate, endDate, selectedDepartment>>
  /\ Render

TogglePnb ==
  /\ UserStep
  /\ filters' = [filters EXCEPT !.pnb = ~@]
  /\ UNCHANGED <<filterMode, selectedMonth, startDate, endDate, selectedDepartment>>
  /\ Render

\* handleBarClick, lines 507-512: the department of a bar of the chart
handleBarClick ==
  /\ UserStep
  /\ \E a \in {analysis} : \E i \in DOMAIN a.departments :
       selectedDepartment' = a.departments[i].name
  /\ UNCHANGED <<filterMode, selectedMonth, startDate, endDate, filters>>
  /\ Render

Next ==
  \/ FetchStart \/ FetchRejects \/ NamesResponseNotOk \/ NamesResponseOk
  \/ NamesTextRejects \/ NamesTextThenAllocationsNotOk \/ NamesTextThenAwait
  \/ AllocationsTextRejects \/ AllocationsTextArrives
  \/ ClickMonth \/ ClickDateRange \/ SelectMonth \/ ChangeStartDate \/ ChangeEndDate
  \/ ToggleEnv \/ TogglePnb \/ handleBarClick

Spec == Init /\ [][Next]_vars

(***************************************************************************)
(* A refresh cycle whose fetches settle.  Each await of fetchDataFromSheet  *)
(* (lines 156-165) resumes once its promise settles, either way; Settle is  *)
(* that resumption, and the premise that both fetches settle is weak        *)
(* fairness on it.                                                          *)
(***************************************************************************)
Settle ==
  \/ FetchRejects \/ NamesResponseNotOk \/ NamesResponseOk
  \/ NamesTextRejects \/ NamesTextThenAllocationsNotOk \/ NamesTextThenAwait
  \/ AllocationsTextRejects \/ AllocationsTextArrives

SpecRefresh == Init /\ [][Next]_vars /\ WF_vars(Settle)

(***************************************************************************)
(* getBusinessDays on its own: one call on any two dates.                  *)
(***************************************************************************)
CallGetBusinessDays ==
  /\ call = NoCall
  /\ \E s \in CallDates, e \in CallDates :
       call' = [op |-> "getBusinessDays", start |-> s, end |-> e,
                result |-> getBusinessDays(s, e)]
  /\ UNCHANGED <<tableVars, fetchVars, filterVars, isLoading, isDataLoaded, error,
                 rendered, lastGood>>

NextBusinessDays == CallGetBusinessDays

SpecBusinessDays == Init /\ [][NextBusinessDays]_vars

(***************************************************************************)
(* The aggregation on its own: lines 285-408 on a list of selected         *)
(* allocations, with the roster of sheet A, no department filter and a     *)
(* period of 8 business days.                                              *)
(***************************************************************************)
LabelPnbMid == <<"P","r","o","j","X"," ","P","N","B",":"," ","r","e","v","i","e","w">>   \* 'ProjX PNB: review'
LabelBareInt == <<"I","N","T","E","G","R","A","T","I","O","N"," ","w","o","r","k">>   \* 'INTEGRATION work'
LabelPtoLower == <<"[","p","t","o","]"," ","x">>   \* '[pto] x'
LabelPnbEnv == <<"P","N","B",":"," ","x"," ","[","E","N","V","]">>   \* 'PNB: x [ENV]'
LabelPto == <<"[","P","T","O","]"," ","l","e","a","v","e">>   \* '[PTO] leave'

SelectedRow(resource, name, project, hours) ==
  ParseAllocationRow(AllocRow(resource, name, project, NumCell(R(hours), FALSE),
                              MDY(1, 6, 2025), MDY(1, 7, 2025), Jan2025))

\* The allocations a call may select.
SelectedRowPool ==
  { SelectedRow(JaneDoe, ProjX, ProjX, 10),
    SelectedRow(JaneDoe, ProjX, LabelEnv, 5),
    SelectedRow(JaneDoe, ProjX, LabelPnbMid, 4),
    SelectedRow(JaneDoe, ProjX, LabelPnb, 6),
    SelectedRow(JaneDoe, ProjX, LabelPnbLower, 1),
    SelectedRow(JaneDoe, ProjX, LabelBareInt, 7),
    SelectedRow(JaneDoe, ProjX, LabelPtoLower, 2),
    SelectedRow(JaneDoe, ProjX, LabelPnbEnv, 3),
    SelectedRow(JaneDoe, ProjX, LabelPtoPnb, 8),
    SelectedRow(JaneDoe, ProjX, LabelPto, 9),
    SelectedRow(JaneDoe, ProjZ, LabelInt, 11),
    SelectedRow(BobRoe, ProjZ, ProjZ, 12) }

MaxRows == 2

SelectedRowLists == UNION {[1..n -> SelectedRowPool] : n \in 1..MaxRows}

AggregateSelected(allocations, toggles) ==
  AnalyzeSelection(NamesMap(parseCsvNames(RosterA)),
                   [totalBusinessDaysInScope |-> 8, filteredAllocations |-> allocations],
                   "All", toggles)

CallAggregate ==
  /\ call = NoCall
  /\ \E allocations \in SelectedRowLists, toggles \in [env : BOOLEAN, pnb : BOOLEAN] :
       call' = [op |-> "aggregate", allocations |-> allocations, filters |-> toggles,
                result |-> AggregateSelected(allocations, toggles)]
  /\ UNCHANGED <<tableVars, fetchVars, filterVars, isLoading, isDataLoaded, error,
                 rendered, lastGood>>

NextAggregate == CallAggregate

SpecAggregate == Init /\ [][NextAggregate]_vars

(***************************************************************************)
(* The Record Normalizer on its own: one call of normalizeName or of       *)
(* parsePercent.                                                           *)
(***************************************************************************)
SmithJohn == <<"S","m","i","t","h",","," ","J","o","h","n">>   \* 'Smith, John'
JohnSmithLower == <<"j","o","h","n"," ","s","m","i","t","h">>   \* 'john smith'
DoeJaneJr == <<"D","o","e",","," ","J","a","n","e",","," ","J","r">>   \* 'Doe, Jane, Jr'

MaxNameLen == 4
NameAlphabet == {"a", "B", ",", " "}

\* The names handed to normalizeName: every string over the alphabet up to
\* the length bound, and three names of people.
NameInputs ==
  UNION {[1..n -> NameAlphabet] : n \in 0..MaxNameLen}
    \cup {SmithJohn, JohnSmithLower, DoeJaneJr}

CallNormalizeName ==
  /\ call = NoCall
  /\ \E name \in NameInputs :
       call' = [op |-> "normalizeName", name |-> name, result |-> normalizeName(name)]
  /\ UNCHANGED <<tableVars, fetchVars, filterVars, isLoading, isDataLoaded, error,
                 rendered, lastGood>>

MaxPercent == 150

\* The numbers n and n/100 up to the bound.
PercentNumbers == {Norm(n, d) : n \in (-MaxPercent)..MaxPercent, d \in {1, 100}}

\* The values handed to parsePercent: undefined, null, '', text that is no
\* number, the text of a number with and without a percent sign, and
\* numbers, NaN and the infinities among them.
PercentInputs ==
  {UndefinedValue, NullValue, EmptyCell, JunkCell}
    \cup {NumCell(v, pct) : v \in PercentNumbers, pct \in BOOLEAN}
    \cup {NumberValue(v) : v \in PercentNumbers \cup {Norm(0, 0), Norm(1, 0), Norm(-1, 0)}}

CallParsePercent ==
  /\ call = NoCall
  /\ \E val \in PercentInputs :
       call' = [op |-> "parsePercent", val |-> val, result |-> parsePercent(val)]
  /\ UNCHANGED <<tableVars, fetchVars, filterVars, isLoading, isDataLoaded, error,
                 rendered, lastGood>>

NextNormalizer == CallNormalizeName \/ CallParsePercent

SpecNormalizer == Init /\ [][NextNormalizer]_vars

(***************************************************************************)
(* The date columns of parseCsvData on their own: one cell of 'Start Date' *)
(* or 'End Date'.                                                          *)
(***************************************************************************)
MaxDay == 31

\* The texts of a date cell: MM/DD/2025 for every month and day number up to
\* the bound, Mon-DD with two month words and a word that is no month,
\* text of neither form, and ''.
DateCellInputs ==
  {MDY(mm, dd, 2025) : mm \in 1..12, dd \in 1..MaxDay}
    \cup {MonDD(mon, dd) : mon \in {"Jan", "Feb", "Xyz"}, dd \in 1..MaxDay}
    \cup {TextDateCell, EmptyDateCell}

CallParseDateCell ==
  /\ call = NoCall
  /\ \E value \in DateCellInputs :
       call' = [op |-> "parseDateCell", value |-> value, result |-> ParseDateCell(value)]
  /\ UNCHANGED <<tableVars, fetchVars, filterVars, isLoading, isDataLoaded, error,
                 rendered, lastGood>>

NextParser == CallParseDateCell

SpecParser == Init /\ [][NextParser]_vars

(***************************************************************************)
(* The analysis memo recomputed: passes of the memo body over the same     *)
(* tables and filters, each pass seeing the employeeMetrics map the pass   *)
(* before it left behind.                                                  *)
(***************************************************************************)
MaxPasses == 3

\* The map of an earlier pass carried into the next one (mutant of NewEmployeeMetrics).
KeptEmployeeMetrics(earlier) == earlier

\* const employeeMetrics = new Map(), line 285
NewEmployeeMetrics(earlier) == <<>>

AnalysisInputs ==
  [namesData : {parseCsvNames(s) : s \in RosterSheets},
   allocationsData : {parseCsvAllocations(s) : s \in AllocationSheets},
   filterMode : {"month", "dateRange"},
   selectedMonth : {Jan2025},
   startDate : {<<2025, 1, 1>>},
   endDate : {<<2025, 1, 10>>},
   selectedDepartment : {"All", "Eng", "Ops"},
   filters : [env : BOOLEAN, pnb : BOOLEAN]]

SelectionOf(in) ==
  Selection(in.allocationsData, in.filterMode, in.selectedMonth, in.startDate, in.endDate)

\* lines 285-345 of one pass
PassMetrics(earlier, in) ==
  AggregateAll(NewEmployeeMetrics(earlier), SelectionOf(in).filteredAllocations,
               NamesMap(in.namesData), in.selectedDepartment, in.filters)

\* lines 347-408 of one pass
PassResult(employeeMetrics, in) ==
  Totals(EmployeeResults(employeeMetrics, SelectionOf(in).totalBusinessDaysInScope),
         SelectionOf(in))

FirstPass(in, employeeMetrics) ==
  [op |-> "analysis", inputs |-> in, pass |-> 1, employeeMetrics |-> employeeMetrics,
   result |-> PassResult(employeeMetrics, in), previous |-> NoAnalysis]

NextPass(c, employeeMetrics) ==
  [c EXCEPT !.pass = @ + 1, !.employeeMetrics = employeeMetrics,
            !.result = PassResult(employeeMetrics, c.inputs), !.previous = c.result]

\* The memo computes for the first time.
CallAnalysis ==
  /\ call = NoCall
  /\ \E in \in AnalysisInputs : call' = FirstPass(in, PassMetrics(<<>>, in))
  /\ UNCHANGED <<tableVars, fetchVars, filterVars, isLoading, isDataLoaded, error,
                 rendered, lastGood>>

\* The memo computes again from the same dependencies.
Recompute ==
  /\ call.op = "analysis" /\ call.pass < MaxPasses
  /\ call' = NextPass(call, PassMetrics(call.employeeMetrics, call.inputs))
  /\ UNCHANGED <<tableVars, fetchVars, filterVars, isLoading, isDataLoaded, error,
                 rendered, lastGood>>

NextRecompute == CallAnalysis \/ Recompute

SpecRecompute == Init /\ [][NextRecompute]_vars

(***************************************************************************)
(* Date-range mode on its own: the analysis of a table of one allocation   *)
(* of Jane Doe for one period, dates from Friday 2025-01-03 on.            *)
(***************************************************************************)
MaxProrateDay == 10

ProrateDays == 3..MaxProrateDay

\* The date cells of the allocation: a day of the window, text of no
\* recognised form, '', and a Mon-DD text that is no date.
ProrateDateCells ==
  {MDY(1, d, 2025) : d \in ProrateDays} \cup {TextDateCell, EmptyDateCell, MonDD("Xyz", 5)}

ProrateHoursCells == {NumCell(R(8), FALSE), NumCell(R(-4), FALSE), EmptyCell}

ProrateAllocations ==
  {ParseAllocationRow(AllocRow(JaneDoe, ProjX, ProjX, hours, start, end, Jan2025)) :
     hours \in ProrateHoursCells, start \in ProrateDateCells, end \in ProrateDateCells}

\* The values of the two date inputs.
ProratePeriodInputs == {<<2025, 1, d>> : d \in ProrateDays}

AnalyzeDateRange(allocs, start, end) ==
  Analyze(TRUE, parseCsvNames(RosterA), allocs, "dateRange", Jan2025, start, end,
          "All", [env |-> TRUE, pnb |-> TRUE])

CallProrate ==
  /\ call = NoCall
  /\ \E alloc \in ProrateAllocations, start \in ProratePeriodInputs, end \in ProratePeriodInputs :
       call' = [op |-> "prorate", alloc |-> alloc, startDate |-> start, endDate |-> end,
                result |-> AnalyzeDateRange(<<alloc>>, start, end)]
  /\ UNCHANGED <<tableVars, fetchVars, filterVars, isLoading, isDataLoaded, error,
                 rendered, lastGood>>

MaxPeriods == 3

\* The ways to cut the days first..last into at most n consecutive periods.
RECURSIVE PeriodsFrom(_, _, _)
PeriodsFrom(first, last, n) ==
  {<<[start |-> <<2025, 1, first>>, end |-> <<2025, 1, last>>]>>}
    \cup (IF n > 1
          THEN UNION {{<<[start |-> <<2025, 1, first>>, end |-> <<2025, 1, e>>]>> \o rest :
                         rest \in PeriodsFrom(e + 1, last, n - 1)} : e \in first..(last - 1)}
          ELSE {})

\* The hours the date-range analysis selects for alloc in one period, 0 when
\* it selects none.
HoursInPeriod(a) ==
  IF a.filteredAllocations = <<>> THEN Zero ELSE a.filteredAllocations[1].Hours

\* The date-range analysis of one allocation run once for each period of a
\* partition of the window.
CallPartition ==
  /\ call = NoCall
  /\ \E alloc \in ProrateAllocations, periods \in PeriodsFrom(3, MaxProrateDay, MaxPeriods) :
       call' = [op |-> "partition", alloc |-> alloc, periods |-> periods,
                hours |-> [i \in DOMAIN periods |->
                             HoursInPeriod(AnalyzeDateRange(<<alloc>>, periods[i].start,
                                                            periods[i].end))]]
  /\ UNCHANGED <<tableVars, fetchVars, filterVars, isLoading, isDataLoaded, error,
                 rendered, lastGood>>

NextProrate == CallProrate \/ CallPartition

SpecProrate == Init /\ [][NextProrate]_vars

(***************************************************************************)
(* Refresh cycles.                                                         *)
(***************************************************************************)
\* The last refresh cycle ended in the catch block.
LastCycleFailed == pc = "idle" /\ error # NoError

\* C1: when a refresh cycle fails, the Names table and the Allocations
\* table both hold what the last successful cycle stored (empty when none
\* has succeeded), and the analysis is the one of those tables.
C1_FailedRefreshKeepsLastGood ==
  LastCycleFailed =>
    /\ namesData = lastGood.names
    /\ allocationsData = lastGood.allocations
    /\ rendered.namesData = lastGood.names
    /\ rendered.allocationsData = lastGood.allocations

\* C2: an analysis is computed only from a Names table and an Allocations
\* table stored by the same refresh cycle.
C2_AnalysisReadsOneCycle ==
  ~NothingToAnalyze(rendered.isDataLoaded, rendered.namesData, rendered.allocationsData)
    => rendered.namesCycle = rendered.allocationsCycle

(***************************************************************************)
(* Business days.                                                          *)
(***************************************************************************)
\* Monday to Friday, counted from a known Monday.
IsWeekday(d) == (d - DaysFromCivil(2024, 12, 23)) % 7 < 5

WeekdaysBetween(first, last) == Cardinality({d \in first .. last : IsWeekday(d)})

\* C7: getBusinessDays(start, end) is the number of calendar days from
\* start to end, both included and the time of day ignored, that fall on
\* Monday to Friday; it is 0 when start is after end.
C7_BusinessDaysCountsWeekdays ==
  call.op = "getBusinessDays" =>
    call.result = WeekdaysBetween(call.start.day, call.end.day)

\* A call on a Monday afternoon and the Friday of the same week gives 5.
C7_MondayToFriday ==
  /\ call.op = "getBusinessDays"
  /\ call.start = [day |-> DaysFromCivil(2025, 1, 6), tod |-> 15]
  /\ call.end = [day |-> DaysFromCivil(2025, 1, 10), tod |-> 0]
  /\ call.result = 5

(***************************************************************************)
(* The analysis.                                                           *)
(***************************************************************************)
\* The memo holds a result.
Computed ==
  ~NothingToAnalyze(rendered.isDataLoaded, rendered.namesData, rendered.allocationsData)

HasTag(label, tag) == includes(label, tag)
HasPnbTag(label) == includes(toUpperCase(label), TagPNB)

\* The date range typed into the two inputs is one of two calendar dates.
HasPeriod ==
  /\ filterMode = "dateRange"
  /\ startDate # <<>> /\ endDate # <<>>
  /\ \A i \in 1..3 : startDate[i] # 0 /\ endDate[i] # 0

PeriodFirstDay == DaysFromCivil(startDate[1], startDate[2], startDate[3])
PeriodLastDay == DaysFromCivil(endDate[1], endDate[2], endDate[3])

Later(a, b) == IF a >= b THEN a ELSE b
Earlier(a, b) == IF a <= b THEN a ELSE b

\* The business days of the part of the span of alloc inside the period.
OverlapWeekdays(alloc, first, last) ==
  WeekdaysBetween(Later(alloc.Start.day, first), Earlier(alloc.End.day, last))

SpanWeekdays(alloc) == WeekdaysBetween(alloc.Start.day, alloc.End.day)

\* Valid dates, a span that meets the period and has a business day.
IsProrated(alloc, first, last) ==
  /\ IsValidDate(alloc.Start) /\ IsValidDate(alloc.End)
  /\ Later(alloc.Start.day, first) <= Earlier(alloc.End.day, last)
  /\ SpanWeekdays(alloc) >= 1

\* estimatedHours * businessDays(overlap) / businessDays(allocation span)
ExpectedProrated(alloc, first, last) ==
  RDiv(RMul(alloc.Hours, R(OverlapWeekdays(alloc, first, last))), R(SpanWeekdays(alloc)))

ExpectedRow(alloc, first, last) ==
  IF IsProrated(alloc, first, last) /\ RGt(ExpectedProrated(alloc, first, last), Zero)
  THEN <<[alloc EXCEPT !.Hours = ExpectedProrated(alloc, first, last)]>>
  ELSE <<>>

RECURSIVE ExpectedRows(_, _, _)
ExpectedRows(allocs, first, last) ==
  IF allocs = <<>> THEN <<>>
  ELSE ExpectedRow(Head(allocs), first, last) \o ExpectedRows(Tail(allocs), first, last)

\* C3: in date-range mode every allocation with valid dates, a span that
\* meets the period and at least one business day of its own is selected
\* with the hours estimatedHours * businessDays(overlap) / businessDays(span)
\* when these are positive, the overlap running from the later start to the
\* earlier end; no other allocation is selected and the business days of
\* the period do not enter the hours.
C3_ProratedByOwnSpan ==
  (HasPeriod /\ Computed) =>
    \A a \in {analysis} :
      a.filteredAllocations =
        ExpectedRows(rendered.allocationsData, PeriodFirstDay, PeriodLastDay)

\* 40 hours over 10 business days, 3 of them in a period of 8, selected as 12.
C3_FortyOverTenGivesTwelve ==
  /\ HasPeriod /\ Computed
  /\ analysis.totalBusinessDaysInScope = 8
  /\ \E i \in DOMAIN rendered.allocationsData :
       /\ rendered.allocationsData[i].Hours = R(40)
       /\ SpanWeekdays(rendered.allocationsData[i]) = 10
       /\ OverlapWeekdays(rendered.allocationsData[i], PeriodFirstDay, PeriodLastDay) = 3
       /\ \E j \in DOMAIN analysis.filteredAllocations :
            analysis.filteredAllocations[j] =
              [rendered.allocationsData[i] EXCEPT !.Hours = R(12)]

\* The employee record of a normalized name, if any.
HasEmployee(a, key) == \E j \in DOMAIN a.employees : a.employees[j].key = key
EmployeeOf(a, key) == a.employees[CHOOSE j \in DOMAIN a.employees : a.employees[j].key = key]

EndsWithPTO(key) ==
  Len(key) >= 3 /\ SubSeq(key, Len(key) - 2, Len(key)) = <<"P", "T", "O">>

\* A selected allocation of a rostered resource of the selected department
\* whose label carries both [PTO] and PNB: and no [ENV].
IsPtoPnbRow(alloc) ==
  /\ HasTag(alloc.Project, TagPTO) /\ HasPnbTag(alloc.Project)
  /\ ~HasTag(alloc.Project, TagENV)
  /\ normalizeName(alloc.Resource) \in RosterKeys(rendered.namesData)
  /\ \/ selectedDepartment = "All"
     \/ NamesMap(rendered.namesData)[normalizeName(alloc.Resource)].department
          = selectedDepartment

CountedAsPTO(a, alloc, key) ==
  /\ HasEmployee(a, key)
  /\ RGe(EmployeeOf(a, key).ptoHours, alloc.Hours)
  /\ \E p \in DOMAIN EmployeeOf(a, key).projects :
       /\ EndsWithPTO(EmployeeOf(a, key).projects[p].key)
       /\ EmployeeOf(a, key).projects[p].task = firstPart(alloc.Project)
       /\ RGe(EmployeeOf(a, key).projects[p].hours, alloc.Hours)

AllPtoPnbCounted(a) ==
  \A i \in DOMAIN a.filteredAllocations :
    IsPtoPnbRow(a.filteredAllocations[i]) =>
      CountedAsPTO(a, a.filteredAllocations[i],
                   normalizeName(a.filteredAllocations[i].Resource))

\* C4: a selected allocation whose label contains both [PTO] and PNB: is
\* PTO whatever the toggles are: the includePnb toggle does not drop it, its
\* hours are in the employee's ptoHours and it is a PTO line of the breakdown.
C4_PtoBeforePnb == Computed => \A a \in {analysis} : AllPtoPnbCounted(a)

\* A selected allocation counted by the totals of the employee key: kept by
\* the toggles and neither PTO nor INT.
IsBooked(alloc, key) ==
  /\ normalizeName(alloc.Resource) = key
  /\ ~HasTag(alloc.Project, TagPTO) /\ ~HasTag(alloc.Project, TagINT)
  /\ filters.env \/ ~HasTag(alloc.Project, TagENV)
  /\ filters.pnb \/ ~HasPnbTag(alloc.Project)

RECURSIVE BookedSum(_, _, _)
BookedSum(allocs, key, pnb) ==
  IF allocs = <<>> THEN Zero
  ELSE RAdd(BookedSum(SubSeq(allocs, 1, Len(allocs) - 1), key, pnb),
            IF /\ IsBooked(allocs[Len(allocs)], key)
               /\ HasPnbTag(allocs[Len(allocs)].Project) \in pnb
            THEN allocs[Len(allocs)].Hours ELSE Zero)

TotalsAddUp(a) ==
  \A j \in DOMAIN a.employees :
    /\ a.employees[j].totalBookedHours =
         RAdd(a.employees[j].bookedBillable, a.employees[j].bookedNonBillable)
    /\ a.employees[j].totalBookedHours =
         BookedSum(a.filteredAllocations, a.employees[j].key, BOOLEAN)
    /\ a.employees[j].bookedBillable =
         BookedSum(a.filteredAllocations, a.employees[j].key, {FALSE})
    /\ a.employees[j].bookedNonBillable =
         BookedSum(a.filteredAllocations, a.employees[j].key, {TRUE})

\* C5: in every computed result every employee has totalBookedHours =
\* bookedBillable + bookedNonBillable, and the three totals are sums over
\* the employee's selected allocations that are neither PTO nor INT.
C5_TotalIsBillablePlusNonBillable == Computed => \A a \in {analysis} : TotalsAddUp(a)

\* An employee with PTO hours or INT hours next to booked hours.
C5_PtoKeptApart ==
  /\ Computed
  /\ \E j \in DOMAIN analysis.employees :
       /\ RGt(analysis.employees[j].totalBookedHours, Zero)
       /\ \/ RGt(analysis.employees[j].ptoHours, Zero)
          \/ RGt(analysis.employees[j].intHours, Zero)

\* The resource key has an allocation with a PNB: label in the table.
HasPnbRows(key) ==
  \E i \in DOMAIN rendered.allocationsData :
    /\ normalizeName(rendered.allocationsData[i].Resource) = key
    /\ HasPnbTag(rendered.allocationsData[i].Project)

HoursOf(a, key, field) == IF HasEmployee(a, key) THEN EmployeeOf(a, key)[field] ELSE Zero

NeverLower(before, after) ==
  \A key \in RosterKeys(rendered.namesData) :
    IF HasPnbRows(key)
    THEN RGe(HoursOf(after, key, "totalBookedHours"),
             HoursOf(before, key, "totalBookedHours"))
    ELSE RGe(HoursOf(after, key, "bookedBillable"),
             HoursOf(before, key, "bookedBillable"))

\* The analysis the next render computes when includePnb is switched on and
\* nothing else changes.
AnalysisWithPnb ==
  Analyze(rendered.isDataLoaded, rendered.namesData, rendered.allocationsData,
          filterMode, selectedMonth, startDate, endDate, selectedDepartment,
          [filters EXCEPT !.pnb = TRUE])

\* C6: with the same data and the same other filters, switching includePnb
\* from off to on lowers neither the totalBookedHours of an employee with
\* PNB: allocations nor the bookedBillable of an employee without.
C6_PnbOnNeverLowers ==
  (Computed /\ ~filters.pnb) =>
    \A before \in {analysis}, after \in {AnalysisWithPnb} : NeverLower(before, after)

RECURSIVE RowsOfMonth(_, _)
RowsOfMonth(allocs, month) ==
  IF allocs = <<>> THEN <<>>
  ELSE (IF Head(allocs).Month = month THEN <<Head(allocs)>> ELSE <<>>)
       \o RowsOfMonth(Tail(allocs), month)

\* C8: in month mode the selected allocations are the rows whose Month
\* equals selectedMonth, each with its full Estimated Hours, whatever the
\* dates of the rows are.
C8_MonthModeSelectsByMonthField ==
  (filterMode = "month" /\ Computed) =>
    \A a \in {analysis} :
      a.filteredAllocations = RowsOfMonth(rendered.allocationsData, selectedMonth)

\* A row of the selected month dated wholly outside that month is selected.
C8_SelectedOutsideItsMonth ==
  /\ filterMode = "month" /\ Computed
  /\ IsValidDate(getDateRangeFromMonthYear(selectedMonth).startDate)
  /\ \E j \in DOMAIN analysis.filteredAllocations :
       /\ IsValidDate(analysis.filteredAllocations[j].Start)
       /\ \/ analysis.filteredAllocations[j].Start.day
               > getDateRangeFromMonthYear(selectedMonth).endDate.day
          \/ analysis.filteredAllocations[j].End.day
               < getDateRangeFromMonthYear(selectedMonth).startDate.day

RatioIsSafe(ratio, denominator) ==
  /\ IsFinite(ratio)
  /\ denominator = Zero => ratio = Zero

RatiosAreSafe(a) ==
  /\ \A j \in DOMAIN a.employees :
       /\ RatioIsSafe(a.employees[j].percentToTarget, a.employees[j].requiredBillableHours)
       /\ RatioIsSafe(a.employees[j].utilizationPercent, R(a.totalBusinessDaysInScope))
  /\ \A d \in DOMAIN a.departments :
       RatioIsSafe(a.departments[d].utilization, a.departments[d].requiredBillableHours)
  /\ RatioIsSafe(a.overall.utilization, a.overall.requiredBillableHours)

RECURSIVE RosteredRows(_, _)
RosteredRows(allocs, keys) ==
  IF allocs = <<>> THEN <<>>
  ELSE (IF normalizeName(Head(allocs).Resource) \in keys THEN <<Head(allocs)>> ELSE <<>>)
       \o RosteredRows(Tail(allocs), keys)

\* The analysis of the selected allocations of rostered resources only.
AnalysisOfRostered(sel) ==
  AnalyzeSelection(NamesMap(rendered.namesData),
                   [sel EXCEPT !.filteredAllocations =
                      RosteredRows(@, RosterKeys(rendered.namesData))],
                   selectedDepartment, filters)

SameTotals(a, b) ==
  /\ a.employees = b.employees
  /\ a.departments = b.departments
  /\ a.overall = b.overall

OnlyRostered(a) ==
  /\ \A j \in DOMAIN a.employees : a.employees[j].key \in RosterKeys(rendered.namesData)
  /\ \A b \in {AnalysisOfRostered([totalBusinessDaysInScope |-> a.totalBusinessDaysInScope,
                                    filteredAllocations |-> a.filteredAllocations])} :
       SameTotals(a, b)

\* C10: every employee record is keyed by a normalized name of the roster,
\* and the employees, departments and overall totals are those of the
\* selected allocations with the unrostered ones left out.
C10_UnrosteredDropped == Computed => \A a \in {analysis} : OnlyRostered(a)

\* A selected allocation, kept by the toggles, of a resource not on the roster.
C10_UnrosteredSelected ==
  /\ Computed
  /\ Len(analysis.employees) > 0
  /\ \E i \in DOMAIN analysis.filteredAllocations :
       /\ normalizeName(analysis.filteredAllocations[i].Resource)
            \notin RosterKeys(rendered.namesData)
       /\ normalizeName(analysis.filteredAllocations[i].Resource) # <<>>
       /\ ~HasTag(analysis.filteredAllocations[i].Project, TagENV)
       /\ ~HasPnbTag(analysis.filteredAllocations[i].Project)

(***************************************************************************)
(* The department filter.                                                  *)
(***************************************************************************)
\* The roster department of the resource of an allocation, "" when unrostered.
DepartmentOfRow(alloc) ==
  IF normalizeName(alloc.Resource) \in RosterKeys(rendered.namesData)
  THEN NamesMap(rendered.namesData)[normalizeName(alloc.Resource)].department
  ELSE ""

RECURSIVE RowsOfDepartment(_, _)
RowsOfDepartment(allocs, department) ==
  IF allocs = <<>> THEN <<>>
  ELSE (IF DepartmentOfRow(Head(allocs)) = department THEN <<Head(allocs)>> ELSE <<>>)
       \o RowsOfDepartment(Tail(allocs), department)

\* The analysis, without a department filter, of the selected allocations of
\* the resources of one department.
AnalysisOfDepartment(sel, department) ==
  AnalyzeSelection(NamesMap(rendered.namesData),
                   [sel EXCEPT !.filteredAllocations = RowsOfDepartment(@, department)],
                   "All", filters)

OnlyDepartment(a, department) ==
  /\ \A j \in DOMAIN a.employees : a.employees[j].department = department
  /\ \A d \in DOMAIN a.departments : a.departments[d].name = department
  /\ \A b \in {AnalysisOfDepartment([totalBusinessDaysInScope |-> a.totalBusinessDaysInScope,
                                      filteredAllocations |-> a.filteredAllocations],
                                     department)} :
       SameTotals(a, b)

\* C11: when selectedDepartment is not 'All', every employee record has that
\* department, the department rollup holds no other department, and the
\* employees, departments and overall totals are those of the selected
\* allocations with the ones of other departments left out.
C11_DepartmentFilterDrops ==
  (Computed /\ selectedDepartment # "All") =>
    \A a \in {analysis} : OnlyDepartment(a, selectedDepartment)

\* A department is selected, an employee of it is in the result, and a
\* selected allocation kept by the toggles belongs to another department.
C11_OtherDepartmentSelected ==
  /\ Computed /\ selectedDepartment # "All"
  /\ Len(analysis.employees) > 0
  /\ \E i \in DOMAIN analysis.filteredAllocations :
       /\ DepartmentOfRow(analysis.filteredAllocations[i]) \notin {"", selectedDepartment}
       /\ ~HasTag(analysis.filteredAllocations[i].Project, TagENV)
       /\ ~HasPnbTag(analysis.filteredAllocations[i].Project)

(***************************************************************************)
(* The rollups.                                                            *)
(***************************************************************************)
\* The positions of the employees with bookedBillable of at least 1, of one
\* department or of all.
ActiveOf(a, departments) ==
  {j \in DOMAIN a.employees :
     /\ RGe(a.employees[j].bookedBillable, R(1))
     /\ a.employees[j].department \in departments}

RECURSIVE SumOver(_, _, _)
SumOver(a, positions, field) ==
  IF positions = {} THEN Zero
  ELSE LET j == CHOOSE k \in positions : TRUE
       IN RAdd(a.employees[j][field], SumOver(a, positions \ {j}, field))

\* sum(bookedBillable) / sum(requiredBillableHours) * 100, 0 over no required hours
RatioOfSums(a, positions) ==
  IF SumOver(a, positions, "requiredBillableHours") = Zero THEN Zero
  ELSE RMul(RDiv(SumOver(a, positions, "bookedBillable"),
                 SumOver(a, positions, "requiredBillableHours")), R(100))

SumsOf(row, a, positions) ==
  /\ row.employeeCount = Cardinality(positions)
  /\ row.bookedBillable = SumOver(a, positions, "bookedBillable")
  /\ row.requiredBillableHours = SumOver(a, positions, "requiredBillableHours")
  /\ row.totalBookedHours = SumOver(a, positions, "totalBookedHours")
  /\ row.utilization = RatioOfSums(a, positions)

AllDepartments(a) == {a.employees[j].department : j \in DOMAIN a.employees}

RollupsSumActive(a) ==
  /\ SumsOf(a.overall, a, ActiveOf(a, AllDepartments(a)))
  /\ a.overall.bookedNonBillable =
       SumOver(a, ActiveOf(a, AllDepartments(a)), "bookedNonBillable")
  /\ \A d \in DOMAIN a.departments : SumsOf(a.departments[d], a, ActiveOf(a, {a.departments[d].name}))
  /\ \A d, e \in DOMAIN a.departments : a.departments[d].name = a.departments[e].name => d = e
  /\ \A dep \in AllDepartments(a) :
       (ActiveOf(a, {dep}) # {}) <=> \E d \in DOMAIN a.departments : a.departments[d].name = dep

\* C12: the department rows and the overall record sum exactly the
\* employees whose bookedBillable is at least 1: counts, bookedBillable,
\* requiredBillableHours and totalBookedHours are the sums over them, a
\* department has a row exactly when it has such an employee, and each
\* utilization is sum(bookedBillable) / sum(requiredBillableHours) * 100.
C12_RollupsSumActiveEmployees == Computed => \A a \in {analysis} : RollupsSumActive(a)

\* An employee with billable hours above 0 and below 1 is listed and the
\* rollups count fewer employees than the list holds.
C12_NegligibleEmployeeListed ==
  /\ Computed
  /\ \E j \in DOMAIN analysis.employees :
       /\ RGt(analysis.employees[j].bookedBillable, Zero)
       /\ ~RGe(analysis.employees[j].bookedBillable, R(1))
  /\ analysis.overall.employeeCount < Len(analysis.employees)
  /\ analysis.overall.totalBookedHours = Zero

(***************************************************************************)
(* Required hours and percent to target.                                   *)
(***************************************************************************)
\* billingTargetPercent * 2080 / 260 * periodBusinessDayCount
ExpectedRequired(e, businessDays) ==
  RMul(RDiv(RMul(e.billingTargetPercent, R(2080)), R(260)), R(businessDays))

RequiredAndPercent(e, businessDays) ==
  /\ e.requiredBillableHours = ExpectedRequired(e, businessDays)
  /\ RGt(e.requiredBillableHours, Zero) =>
       e.percentToTarget = RMul(RDiv(e.bookedBillable, e.requiredBillableHours), R(100))

KeyJaneDoe == <<"J","A","N","E"," ","D","O","E">>

\* The billable rows of one resource that the period selects.
BillableRowsOf(key) ==
  {i \in DOMAIN rendered.allocationsData :
     /\ IsBooked(rendered.allocationsData[i], key)
     /\ ~HasPnbTag(rendered.allocationsData[i].Project)
     /\ ExpectedRow(rendered.allocationsData[i], PeriodFirstDay, PeriodLastDay) # <<>>}

\* The roster row 'Doe, Jane' at 80%, the period 01/01/2025 to 01/10/2025
\* and, as Jane Doe's billable work of the period, one allocation of 100
\* hours from 01/01/2025 to 01/10/2025.
JaneDoeScenario ==
  /\ Computed /\ HasPeriod
  /\ startDate = <<2025, 1, 1>> /\ endDate = <<2025, 1, 10>>
  /\ \E i \in DOMAIN rendered.namesData :
       /\ rendered.namesData[i].Name = DoeJane
       /\ rendered.namesData[i].PercentageBillable = NumCell(R(80), TRUE)
       /\ selectedDepartment \in {"All", rendered.namesData[i].Department}
       /\ \A j \in DOMAIN rendered.namesData :
            normalizeName(rendered.namesData[j].Name) = KeyJaneDoe => j = i
  /\ \E i \in DOMAIN rendered.allocationsData :
       /\ BillableRowsOf(KeyJaneDoe) = {i}
       /\ rendered.allocationsData[i].Resource = JaneDoe
       /\ rendered.allocationsData[i].Hours = R(100)
       /\ rendered.allocationsData[i].Start = NewDate(2025, 0, 1)
       /\ rendered.allocationsData[i].End = NewDate(2025, 0, 10)

JaneDoeExpected(a) ==
  /\ a.totalBusinessDaysInScope = 8
  /\ HasEmployee(a, KeyJaneDoe)
  /\ EmployeeOf(a, KeyJaneDoe).bookedBillable = R(100)
  /\ EmployeeOf(a, KeyJaneDoe).requiredBillableHours = Norm(256, 5)
  /\ EmployeeOf(a, KeyJaneDoe).percentToTarget = Norm(3125, 16)

\* C13: every employee record has requiredBillableHours =
\* billingTargetPercent * 2080 / 260 * the business days of the period and,
\* over positive required hours, percentToTarget = bookedBillable /
\* requiredBillableHours * 100; for 'Doe, Jane' at 80% with one 100-hour
\* allocation from 01/01/2025 to 01/10/2025 and that date range as period,
\* the period has 8 business days and 'JANE DOE' has bookedBillable 100,
\* requiredBillableHours 51.2 and percentToTarget 195.3125.
C13_RequiredHoursAndPercentToTarget ==
  Computed =>
    \A a \in {analysis} :
      /\ \A j \in DOMAIN a.employees :
           RequiredAndPercent(a.employees[j], a.totalBusinessDaysInScope)
      /\ JaneDoeScenario => JaneDoeExpected(a)

\* The scenario of Jane Doe is on screen.
C13_JaneDoeOnScreen == JaneDoeScenario /\ HasEmployee(analysis, KeyJaneDoe)

(***************************************************************************)
(* Categories and toggles.                                                 *)
(***************************************************************************)
Aggregated == call.op = "aggregate"

\* The category of a label in the priority order PTO, INT, ENV, PNB, with
\* the tags as the program recognises them.
CategoryOf(label) ==
  IF HasTag(label, TagPTO) THEN "PTO"
  ELSE IF HasTag(label, TagINT) THEN "INT"
  ELSE IF HasTag(label, TagENV) THEN "ENV"
  ELSE IF HasPnbTag(label) THEN "PNB"
  ELSE "ordinary"

RECURSIVE SumHoursAt(_, _)
SumHoursAt(seq, positions) ==
  IF positions = {} THEN Zero
  ELSE LET i == CHOOSE k \in positions : TRUE
       IN RAdd(seq[i].hours, SumHoursAt(seq, positions \ {i}))

HoursAt(allocs, positions) ==
  SumHoursAt([i \in DOMAIN allocs |-> [hours |-> allocs[i].Hours]], positions)

RowsOfKey(allocs, key) == {i \in DOMAIN allocs : normalizeName(allocs[i].Resource) = key}
RowsOfCategory(allocs, key, categories) ==
  {i \in RowsOfKey(allocs, key) : CategoryOf(allocs[i].Project) \in categories}

\* The categories the toggles let through.
KeptCategories(toggles) ==
  {"PTO", "INT", "ordinary"} \cup (IF toggles.env THEN {"ENV"} ELSE {})
                             \cup (IF toggles.pnb THEN {"PNB"} ELSE {})
BillableCategories(toggles) == {"ordinary"} \cup (IF toggles.env THEN {"ENV"} ELSE {})
NonBillableCategories(toggles) == IF toggles.pnb THEN {"PNB"} ELSE {}

ProjectsOf(a, key) == IF HasEmployee(a, key) THEN EmployeeOf(a, key).projects ELSE <<>>

EndsWith(key, suffix) ==
  Len(key) >= Len(suffix) /\ SubSeq(key, Len(key) - Len(suffix) + 1, Len(key)) = suffix

TogglesRespectedFor(c, key) ==
  /\ HoursOf(c.result, key, "bookedBillable") =
       HoursAt(c.allocations, RowsOfCategory(c.allocations, key, BillableCategories(c.filters)))
  /\ HoursOf(c.result, key, "bookedNonBillable") =
       HoursAt(c.allocations, RowsOfCategory(c.allocations, key, NonBillableCategories(c.filters)))
  /\ HasEmployee(c.result, key) =>
       RowsOfCategory(c.allocations, key, KeptCategories(c.filters)) # {}
  /\ RowsOfCategory(c.allocations, key, BillableCategories(c.filters)
                                          \cup NonBillableCategories(c.filters)) # {}
       => HasEmployee(c.result, key)
  /\ SumHoursAt(ProjectsOf(c.result, key),
                {p \in DOMAIN ProjectsOf(c.result, key) :
                   ProjectsOf(c.result, key)[p].isBillable}) =
       HoursAt(c.allocations, RowsOfCategory(c.allocations, key, BillableCategories(c.filters)))
  /\ SumHoursAt(ProjectsOf(c.result, key),
                {p \in DOMAIN ProjectsOf(c.result, key) :
                   EndsWith(ProjectsOf(c.result, key)[p].key, <<"-", "P", "N", "B">>)}) =
       HoursAt(c.allocations, RowsOfCategory(c.allocations, key, NonBillableCategories(c.filters)))

TogglesRespected(c) ==
  \A key \in RosterKeys(parseCsvNames(RosterA)) : TogglesRespectedFor(c, key)

\* C14: an ENV allocation is dropped entirely when includeEnv is off (no
\* hours in any total, no employee record, no breakdown entry) and is booked
\* as billable when it is on; a PNB allocation is dropped entirely when
\* includePnb is off and is booked as non-billable when it is on.
C14_TogglesDropOrBook == Aggregated => TogglesRespected(call)

(***************************************************************************)
(* PTO and INT.                                                            *)
(***************************************************************************)
RECURSIVE RowsOutsideCategories(_, _)
RowsOutsideCategories(allocs, categories) ==
  IF allocs = <<>> THEN <<>>
  ELSE (IF CategoryOf(Head(allocs).Project) \in categories THEN <<>> ELSE <<Head(allocs)>>)
       \o RowsOutsideCategories(Tail(allocs), categories)

\* The hours of the breakdown entries of one key suffix, and their flags.
BreakdownOf(c, key, suffix, allocs, categories) ==
  /\ SumHoursAt(ProjectsOf(c.result, key),
                {p \in DOMAIN ProjectsOf(c.result, key) :
                   EndsWith(ProjectsOf(c.result, key)[p].key, suffix)}) =
       HoursAt(allocs, RowsOfCategory(allocs, key, categories))
  /\ \A p \in DOMAIN ProjectsOf(c.result, key) :
       EndsWith(ProjectsOf(c.result, key)[p].key, suffix)
         => ~ProjectsOf(c.result, key)[p].isBillable

SameBooked(a, b, key) ==
  \A field \in {"totalBookedHours", "bookedBillable", "bookedNonBillable"} :
    HoursOf(a, key, field) = HoursOf(b, key, field)

PtoIntTrackedFor(c, key) ==
  /\ HoursOf(c.result, key, "ptoHours") =
       HoursAt(c.allocations, RowsOfCategory(c.allocations, key, {"PTO"}))
  /\ HoursOf(c.result, key, "intHours") =
       HoursAt(c.allocations, RowsOfCategory(c.allocations, key, {"INT"}))
  /\ BreakdownOf(c, key, <<"-", "P", "T", "O">>, c.allocations, {"PTO"})
  /\ BreakdownOf(c, key, <<"-", "I", "N", "T">>, c.allocations, {"INT"})
  /\ \A b \in {AggregateSelected(RowsOutsideCategories(c.allocations, {"PTO", "INT"}),
                                 c.filters)} :
       SameBooked(c.result, b, key)

PtoIntTracked(c) ==
  \A key \in RosterKeys(parseCsvNames(RosterA)) : PtoIntTrackedFor(c, key)

\* C15: every selected PTO or INT allocation of a rostered employee adds
\* its hours to the employee's ptoHours or intHours, adds nothing to
\* totalBookedHours, bookedBillable or bookedNonBillable, and is in a
\* breakdown entry flagged not billable.
C15_PtoIntTrackedApart == Aggregated => PtoIntTracked(call)

(***************************************************************************)
(* The PNB: tag.                                                           *)
(***************************************************************************)
\* The label starts with 'PNB:' in any case.
StartsWithPnb(label) == Len(label) >= 4 /\ toUpperCase(SubSeq(label, 1, 4)) = TagPNB

HasBracketTag(label) ==
  HasTag(label, TagPTO) \/ HasTag(label, TagINT) \/ HasTag(label, TagENV)

PnbByPrefixFor(c, key) ==
  /\ RGe(HoursOf(c.result, key, "bookedBillable"),
         HoursAt(c.allocations,
                 {i \in RowsOfKey(c.allocations, key) :
                    /\ ~HasBracketTag(c.allocations[i].Project)
                    /\ ~StartsWithPnb(c.allocations[i].Project)}))
  /\ RGe(HoursAt(c.allocations,
                 {i \in RowsOfKey(c.allocations, key) :
                    StartsWithPnb(c.allocations[i].Project)}),
         HoursOf(c.result, key, "bookedNonBillable"))

PnbByPrefix(c) == \A key \in RosterKeys(parseCsvNames(RosterA)) : PnbByPrefixFor(c, key)

\* C16: an allocation is PNB only when its label starts with 'PNB:' in any
\* case: the hours of a label without bracket tags that does not start with
\* 'PNB:' are booked as billable whatever the toggles are, and only labels
\* that start with 'PNB:' add to bookedNonBillable.
C16_PnbIsAPrefix == Aggregated => PnbByPrefix(call)

(***************************************************************************)
(* The bracket tags.                                                       *)
(***************************************************************************)
\* Neither '[PTO]', '[INT]' nor '[ENV]' as written, nor 'PNB:'.
IsUntagged(label) == ~HasBracketTag(label) /\ ~HasPnbTag(label)

AllProjects(a, key) == DOMAIN ProjectsOf(a, key)

FourBuckets(a, key) ==
  RAdd(RAdd(HoursOf(a, key, "ptoHours"), HoursOf(a, key, "intHours")),
       RAdd(HoursOf(a, key, "bookedBillable"), HoursOf(a, key, "bookedNonBillable")))

TagsAsWrittenFor(c, key) ==
  /\ RGe(HoursOf(c.result, key, "bookedBillable"),
         HoursAt(c.allocations, {i \in RowsOfKey(c.allocations, key) :
                                   IsUntagged(c.allocations[i].Project)}))
  /\ RGe(HoursAt(c.allocations, {i \in RowsOfKey(c.allocations, key) :
                                   HasTag(c.allocations[i].Project, TagPTO)}),
         HoursOf(c.result, key, "ptoHours"))
  /\ RGe(HoursAt(c.allocations, {i \in RowsOfKey(c.allocations, key) :
                                   HasTag(c.allocations[i].Project, TagINT)}),
         HoursOf(c.result, key, "intHours"))
  /\ FourBuckets(c.result, key) =
       SumHoursAt(ProjectsOf(c.result, key), AllProjects(c.result, key))
  /\ RGe(HoursAt(c.allocations, RowsOfKey(c.allocations, key)), FourBuckets(c.result, key))
  /\ \A p \in AllProjects(c.result, key) :
       ProjectsOf(c.result, key)[p].isBillable <=>
         EndsWith(ProjectsOf(c.result, key)[p].key, <<"-", "G", "E", "N">>)

TagsAsWritten(c) == \A key \in RosterKeys(parseCsvNames(RosterA)) : TagsAsWrittenFor(c, key)

BothAggregated(c) ==
  /\ Len(c.allocations) = 2
  /\ \E key \in RosterKeys(parseCsvNames(RosterA)) :
       /\ RowsOfKey(c.allocations, key) = {1, 2}
       /\ SumHoursAt(ProjectsOf(c.result, key), AllProjects(c.result, key)) =
            RAdd(c.allocations[1].Hours, c.allocations[2].Hours)

SameProjectAndCategory(x, y) ==
  /\ firstPart(x.Name) = firstPart(y.Name)
  /\ CategoryOf(x.Project) = CategoryOf(y.Project)

EntriesOf(c) == Len(ProjectsOf(c.result, normalizeName(c.allocations[1].Resource)))

\* C18: two aggregated allocations of one employee are in the same
\* breakdown entry if and only if they have the same truncated project name
\* and the same category among PTO, INT, ENV, PNB and ordinary.
C18_EntryPerProjectAndCategory ==
  (Aggregated /\ BothAggregated(call)) =>
    (EntriesOf(call) = 1 <=> SameProjectAndCategory(call.allocations[1], call.allocations[2]))

(***************************************************************************)
(* normalizeName.                                                          *)
(***************************************************************************)
FirstComma(name) ==
  CHOOSE k \in DOMAIN name : name[k] = "," /\ \A j \in 1..(k - 1) : name[j] # ","

\* 'FIRST LAST' in upper case, LAST the text before the first comma and
\* FIRST all the text after it, both trimmed.
SplitAtFirstComma(name) ==
  toUpperCase(trim(SubSeq(name, FirstComma(name) + 1, Len(name)))
              \o <<" ">> \o trim(SubSeq(name, 1, FirstComma(name) - 1)))

ExpectedName(name) ==
  IF name = <<>> THEN <<>>
  ELSE IF \E k \in DOMAIN name : name[k] = "," THEN SplitAtFirstComma(name)
  ELSE toUpperCase(name)

\* C19: normalizeName returns '' for '', the upper-cased input for an
\* input without a comma, and for an input with a comma 'FIRST LAST' in
\* upper case, split at the first comma only and both parts trimmed, so
\* that all text after the first comma is the first-name part.
C19_NormalizeNameSplitsAtFirstComma ==
  call.op = "normalizeName" => call.result = ExpectedName(call.name)

(***************************************************************************)
(* parsePercent.                                                           *)
(***************************************************************************)
\* The number of a value, NaN when it has none.
NumberOf(val) == IF val.kind \in {"num", "number"} THEN val.val ELSE Norm(0, 0)

Clamped(x) == IF RGt(Zero, x) THEN Zero ELSE IF RGt(x, R(1)) THEN R(1) ELSE x

ExpectedPercent(val) ==
  IF IsNaN(NumberOf(val)) THEN Zero
  ELSE IF RGt(NumberOf(val), R(1)) THEN Clamped(RDiv(NumberOf(val), R(100)))
  ELSE Clamped(NumberOf(val))

\* C20: parsePercent returns a value of [0,1] for every input: 0 for
\* undefined, null, '' and text that is no number, the number divided by
\* 100 when it is greater than 1, clamped to [0,1], so that negative
\* numbers give 0.
C20_ParsePercentInUnitInterval ==
  call.op = "parsePercent" =>
    /\ RGe(call.result, Zero) /\ RGe(R(1), call.result)
    /\ call.result = ExpectedPercent(call.val)
    /\ call.val.kind \in {"undefined", "null", "empty", "junk"} => call.result = Zero
    /\ RGt(Zero, NumberOf(call.val)) => call.result = Zero

\* parsePercent('150') is 1.
C20_OneHundredFiftyIsOne ==
  /\ call.op = "parsePercent"
  /\ call.val = NumCell(R(150), FALSE)
  /\ call.result = R(1)

(***************************************************************************)
(* The date columns.                                                       *)
(***************************************************************************)
IsRecognisedDateText(value) == value.fmt \in {"mdy", "mon-dd"}

\* C21: the parsed value of a 'Start Date' or 'End Date' cell is a date
\* when the text has the form MM/DD/YYYY or Mon-DD, and null for '' and for
\* text of neither form.
C21_UnparseableDateIsNull ==
  call.op = "parseDateCell" =>
    IF IsRecognisedDateText(call.value) THEN IsDate(call.result) ELSE call.result = Null

(***************************************************************************)
(* Determinism.                                                            *)
(***************************************************************************)
AnalysisOfInputs(in) ==
  Analyze(TRUE, in.namesData, in.allocationsData, in.filterMode, in.selectedMonth,
          in.startDate, in.endDate, in.selectedDepartment, in.filters)

NotNegative(x) == RGe(x, Zero)

ParsedHoursNotNegative ==
  \A i \in DOMAIN rendered.allocationsData : NotNegative(rendered.allocationsData[i].Hours)

ResultHoursNotNegative(a) ==
  \A j \in DOMAIN a.employees :
    /\ \A field \in {"totalBookedHours", "bookedBillable", "bookedNonBillable",
                     "ptoHours", "intHours"} : NotNegative(a.employees[j][field])
    /\ \A p \in DOMAIN a.employees[j].projects : NotNegative(a.employees[j].projects[p].hours)

\* C23: every parsed allocation has estimatedHours >= 0, and in both
\* filter modes every employee's totalBookedHours, bookedBillable,
\* bookedNonBillable, ptoHours and intHours and the hours of every
\* breakdown entry are >= 0.
C23_HoursNeverNegative ==
  Computed => /\ ParsedHoursNotNegative
              /\ \A a \in {analysis} : ResultHoursNotNegative(a)

(***************************************************************************)
(* Date-range mode: what is skipped.                                       *)
(***************************************************************************)
Prorated == call.op = "prorate"

DayOf(ymd) == DaysFromCivil(ymd[1], ymd[2], ymd[3])

ContributesNothing(a) == a.filteredAllocations = <<>> /\ a.employees = <<>>

MissingDate(alloc) == ~IsValidDate(alloc.Start) \/ ~IsValidDate(alloc.End)

OutsidePeriod(alloc, first, last) ==
  Later(alloc.Start.day, first) > Earlier(alloc.End.day, last)

\* One of the four cases: a date missing or not valid, a span that does not
\* meet the period, a span without a business day, prorated hours <= 0.
IsSkipped(alloc, first, last) ==
  \/ MissingDate(alloc)
  \/ OutsidePeriod(alloc, first, last)
  \/ SpanWeekdays(alloc) = 0
  \/ ~RGt(ExpectedProrated(alloc, first, last), Zero)

\* C24: in date-range mode an allocation adds no hours and no employee
\* record when a date of it is missing or not a valid date, when its span
\* does not meet the period, when its span holds no business day, or when
\* its prorated hours are <= 0.
C24_SkippedAllocationsAddNothing ==
  (Prorated /\ IsSkipped(call.alloc, DayOf(call.startDate), DayOf(call.endDate)))
    => ContributesNothing(call.result)

\* A weekend-only allocation of 8 hours inside the period adds nothing.
C24_WeekendOnlyAllocation ==
  /\ Prorated
  /\ call.alloc.Hours = R(8)
  /\ call.alloc.Start = NewDate(2025, 0, 4) /\ call.alloc.End = NewDate(2025, 0, 5)
  /\ call.startDate = <<2025, 1, 3>> /\ call.endDate = <<2025, 1, 10>>
  /\ ContributesNothing(call.result)

\* The overall record of a result without employees.
NothingOverall(a) ==
  /\ a.overall.bookedBillable = Zero /\ a.overall.bookedNonBillable = Zero
  /\ a.overall.totalBookedHours = Zero /\ a.overall.requiredBillableHours = Zero
  /\ a.overall.employeeCount = 0 /\ a.overall.utilization = Zero

\* C25: in date-range mode with a period whose start is after its end the
\* period has 0 business days, no allocation is selected, and the result
\* has no employees, no departments and overall totals of 0.
C25_ReversedPeriodIsEmpty ==
  (Prorated /\ DayOf(call.startDate) > DayOf(call.endDate)) =>
    /\ call.result.totalBusinessDaysInScope = 0
    /\ ContributesNothing(call.result)
    /\ call.result.departments = <<>>
    /\ NothingOverall(call.result)

\* The period 10 January to 6 January over an 8-hour allocation of 6 to 10
\* January.
C25_ReversedPeriodOverWorkWeek ==
  /\ Prorated
  /\ call.startDate = <<2025, 1, 10>> /\ call.endDate = <<2025, 1, 6>>
  /\ call.alloc.Hours = R(8)
  /\ call.alloc.Start = NewDate(2025, 0, 6) /\ call.alloc.End = NewDate(2025, 0, 10)
  /\ call.result.computed

(***************************************************************************)
(* Date-range mode: the prorated hours.                                    *)
(***************************************************************************)
\* The allocation of the call is selected.
IsSelected(c) == Len(c.result.filteredAllocations) = 1

SelectedHours(c) == c.result.filteredAllocations[1].Hours

\* Every business day of the span of alloc lies inside the period.
BusinessDaysInside(alloc, first, last) ==
  \A d \in alloc.Start.day .. alloc.End.day : IsWeekday(d) => (first <= d /\ d <= last)

\* businessDays(overlap) and businessDays(allocation span) as the program counts them
OverlapBusinessDays(alloc, startPeriod, endPeriod) ==
  getBusinessDays(LocalMidnight(MaxDate(alloc.Start, startPeriod)),
                  LocalMidnight(MinDate(alloc.End, endPeriod)))

NeverMoreThanEstimated(c) ==
  /\ OverlapBusinessDays(c.alloc, parseYMDToLocalDate(c.startDate),
                         parseYMDToLocalDate(c.endDate))
       <= getBusinessDays(c.alloc.Start, c.alloc.End)
  /\ IsSelected(c) =>
       /\ RGe(c.alloc.Hours, SelectedHours(c))
       /\ SelectedHours(c) = c.alloc.Hours
            <=> BusinessDaysInside(c.alloc, DayOf(c.startDate), DayOf(c.endDate))

\* C26: in date-range mode the business days of the overlap never exceed
\* those of the allocation's span, the prorated hours never exceed the
\* estimated hours, and they equal them exactly when every business day of
\* the span lies inside the period.
C26_ProratedAtMostEstimated ==
  (Prorated /\ ~MissingDate(call.alloc)) => NeverMoreThanEstimated(call)

\* An allocation from Saturday 4 to Friday 10 January over the period
\* Monday 6 to Friday 10 January keeps its 8 hours.
C26_WeekendOutsidePeriod ==
  /\ Prorated /\ IsSelected(call)
  /\ call.alloc.Start = NewDate(2025, 0, 4) /\ call.alloc.End = NewDate(2025, 0, 10)
  /\ call.startDate = <<2025, 1, 6>> /\ call.endDate = <<2025, 1, 10>>
  /\ SelectedHours(call) = R(8)

(***************************************************************************)
(* Date-range mode: periods that follow one another.                       *)
(***************************************************************************)
RECURSIVE SumOfHours(_)
SumOfHours(hours) ==
  IF hours = <<>> THEN Zero ELSE RAdd(Head(hours), SumOfHours(Tail(hours)))

InFlight == pc # "idle"

Finished == pc = "idle" /\ cycle > 0

\* The cycle succeeded: its allocations text, the last await, arrived.
Succeeded == Finished /\ allocationsCycle = cycle

Failed == Finished /\ allocationsCycle # cycle

\* C28: every refresh cycle whose fetches settle eventually finishes with
\* isLoading false; after a successful cycle error is null and isDataLoaded is
\* true, after a failed one error is non-null; and isDataLoaded, once true,
\* never becomes false again.
C28_RefreshCycleFinishes ==
  /\ InFlight ~> (Finished /\ ~isLoading)
  /\ [](Finished => ~isLoading)
  /\ [](Succeeded => (error = NoError /\ isDataLoaded))
  /\ [](Failed => error # NoError)
  /\ [][isDataLoaded => isDataLoaded']_vars

C28_FailureAfterSuccess ==
  /\ Failed /\ cycle = 2
  /\ ~isLoading /\ error # NoError /\ isDataLoaded

(***************************************************************************)
(* The breakdown against the totals.                                       *)
(***************************************************************************)
FlaggedEntries(e, isBillable) == {p \in DOMAIN e.projects : e.projects[p].isBillable = isBillable}

BreakdownAccountsFor(e) ==
  /\ SumHoursAt(e.projects, FlaggedEntries(e, TRUE)) = e.bookedBillable
  /\ SumHoursAt(e.projects, FlaggedEntries(e, FALSE)) =
       RAdd(RAdd(e.bookedNonBillable, e.ptoHours), e.intHours)

\* C29: in every employee record the hours of the breakdown entries flagged
\* billable sum to bookedBillable and the hours of the entries flagged not
\* billable sum to bookedNonBillable + ptoHours + intHours.
C29_BreakdownSumsToTotals ==
  Aggregated => \A j \in DOMAIN call.result.employees :
                  BreakdownAccountsFor(call.result.employees[j])

\* 10 ordinary hours and 6 PNB hours of one employee, PNB included: one
\* billable entry of 10 and one not billable of 6.
C29_BillableAndPnbEntries ==
  /\ Aggregated /\ call.filters.pnb
  /\ HoursOf(call.result, KeyJaneDoe, "bookedBillable") = R(10)
  /\ HoursOf(call.result, KeyJaneDoe, "bookedNonBillable") = R(6)
  /\ Len(ProjectsOf(call.result, KeyJaneDoe)) = 2
  /\ \E p \in AllProjects(call.result, KeyJaneDoe) :
       ~ProjectsOf(call.result, KeyJaneDoe)[p].isBillable

(***************************************************************************)
(* The overall record against the department rows.                         *)
(***************************************************************************)
RECURSIVE SumRows(_, _)
SumRows(rows, field) ==
  IF rows = <<>> THEN Zero ELSE RAdd(Head(rows)[field], SumRows(Tail(rows), field))

RECURSIVE CountRows(_)
CountRows(rows) == IF rows = <<>> THEN 0 ELSE Head(rows).employeeCount + CountRows(Tail(rows))

RowsOf(a, department) == {d \in DOMAIN a.departments : a.departments[d].name = department}

OverallSumsDepartments(a) ==
  /\ \A field \in {"bookedBillable", "totalBookedHours", "requiredBillableHours"} :
       a.overall[field] = SumRows(a.departments, field)
  /\ a.overall.employeeCount = CountRows(a.departments)
  /\ \A j \in ActiveOf(a, AllDepartments(a)) :
       Cardinality(RowsOf(a, a.employees[j].department)) = 1
  /\ CountRows(a.departments) = Cardinality(ActiveOf(a, AllDepartments(a)))

\* C30: overall bookedBillable, totalBookedHours, requiredBillableHours and
\* employeeCount each equal the sum of the same field over the department
\* rows, and each employee with bookedBillable of at least 1 is counted in
\* exactly one department row.
C30_OverallIsSumOfDepartments == Aggregated => OverallSumsDepartments(call.result)

\* Two employees of two departments, 10 and 12 billable hours: two rows of one
\* employee each and 22 hours overall.
C30_TwoDepartmentRows ==
  /\ Aggregated
  /\ Len(call.result.departments) = 2
  /\ call.result.overall.employeeCount = 2
  /\ call.result.overall.bookedBillable = R(22)
  /\ RGt(call.result.overall.requiredBillableHours, Zero)

====
